---- MODULE Spec2Model ----
(***************************************************************************)
(* Acquisition and contact-resolution pipeline of teksyo/real-marketing    *)
(* (scraper/): listing upsert, contact reconciliation, the run budget and  *)
(* the batch schedulers, modelled from the Python sources.                 *)
(*                                                                         *)
(* The persistent store (Prisma) is a set of Lead rows, a set of Contact   *)
(* rows and a set of Lead-Contact links.  Lead.zid and Contact.agentId are *)
(* unique (the code reads them with find_unique); Contact.phoneNumber is   *)
(* not (the code reads it with find_first).                                *)
(***************************************************************************)
EXTENDS Integers, Sequences, FiniteSets, TLC

(* ------------------------------ bounds -------------------------------- *)
\* longest recorded history of sequential upserts
MaxLog == 2
\* abstract wall clock runs over 0..MaxTime
MaxTime == 1
\* configured run budgets explored: 0..MaxBudget clock units
MaxBudget == 1
\* most Contact rows the store is let grow to
MaxContacts == 2
\* most scheduler passes that go by one listing
MaxPasses == 6
\* the page number of fetch_listings is kept modulo MaxPages
MaxPages == 3
\* all_results of fetch_listings is kept up to MaxResults records
MaxResults == 2

(* --------------------------- Python values ---------------------------- *)
\* dict key absent
Missing == "<missing>"
\* Python None
None == "<none>"
NoId == 0

\* dict.get(key, default)
Get(v, default) == IF v = Missing THEN default ELSE v
\* str(x)
Str(v) == IF v = None THEN "None" ELSE v
\* truthiness of a str-or-None value
Truthy(v) == v # None /\ v # "" /\ v # Missing
\* a or b
OrElse(a, b) == IF Truthy(a) THEN a ELSE b

(* ---------------------------- raw listings ---------------------------- *)
RawZpids == {Missing, None, "z1", "z2"}
RawStates == {Missing, "GA", "TX"}
RawUrls == {Missing, "http://x"}
RawListings == [zpid : RawZpids, addressState : RawStates, detailUrl : RawUrls]

\* the raw listing carries a natural identifier
HasIdentifier(listing) == listing.zpid \notin {Missing, None, ""}

VARIABLES
  leads,        \* Lead rows: [id, zid, link, attempts]
  contacts,     \* Contact rows: [id, agentId, phone, name]
  links,        \* Lead-Contact association: <<leadId, contactId>>
  now,          \* wall clock
  start_time,   \* ScraperState.start_time
  max_runtime,  \* ScraperState.max_runtime
  should_stop,  \* ScraperState.should_stop
  log,          \* history of completed sequential upserts
  writers,      \* concurrent upsert calls: position and result of each
  resolved,     \* candidates handed to contact resolution: <<leadId, agentId, phone>>
  run,          \* the running script: control position and loop variables
  counts,       \* the counters a run reports in its summary
  obs,          \* what has been observed of the run: fetches issued, work begun late
  env           \* the deployment: which contact scheduler runs, which pages fail

storeVars == <<leads, contacts, links>>
clockVars == <<now, start_time, max_runtime, should_stop>>
vars == <<leads, contacts, links, now, start_time, max_runtime, should_stop, log,
          writers, resolved, run, counts, obs, env>>
runVars == <<run, counts, obs, env>>

(* --------------------------- initial values ---------------------------- *)
Min(a, b) == IF a < b THEN a ELSE b

StoreEmpty == leads = {} /\ contacts = {} /\ links = {}

ClockInit ==
  /\ now = 0
  /\ start_time = 0
  /\ max_runtime \in 0..MaxBudget
  /\ should_stop = FALSE

WritersIdle == writers = [w \in {} |-> 0]

\* no script is running
IdleRun == [script |-> "none", pc |-> "idle", batch |-> <<>>, idx |-> 0, attempt |-> 0,
            part |-> 0, page |-> 0, result |-> "none"]

ZeroCounts == [new |-> 0, existing |-> 0, error |-> 0, skipped |-> 0,
               processed |-> 0, created |-> 0, errors |-> 0]

Zids == {"z1", "z2"}

\* no contact resolution has been attempted yet
NoAttempt == [fn |-> "none", zid |-> "", fetch |-> FALSE, outcome |-> "none",
              before |-> 0, after |-> 0, eligible |-> TRUE]

NoObs == [fetched |-> {}, late |-> {}, leads0 |-> 0, contacts0 |-> 0,
          signalled |-> FALSE, raised |-> FALSE, turns |-> [z \in Zids |-> 0],
          last |-> NoAttempt, relinked |-> {}]

RunIdle ==
  /\ run = IdleRun
  /\ counts = ZeroCounts
  /\ obs = NoObs
  /\ env = [sched |-> "none", failing |-> {}]

(* ------------------------------- store -------------------------------- *)
\* a lookup that never finds the row
FindLeadByZid_Blind(ls, zid) == {}

\* prisma.lead.find_unique(where={'zid': zid})
FindLeadByZid(ls, zid) == {l \in ls : l.zid = zid}

\* the store's unique constraint on Lead.zid
LeadUniqueViolation(ls, zid) == \E l \in ls : l.zid = zid

\* autoincrement primary key of a new Lead row (rows are never deleted)
NewLeadId(ls) == Cardinality(ls) + 1

(* ---------------------------- run budget ------------------------------ *)
\* a budget check that lets the instant of the deadline pass
IsTimeout_Strict(t, start, maxrt, stop) == (t - start > maxrt) \/ stop

\* ScraperState.is_timeout
IsTimeout(t, start, maxrt, stop) == (t - start >= maxrt) \/ stop

is_timeout == IsTimeout(now, start_time, max_runtime, should_stop)

\* a clock that starts over when it reaches its last instant
Advance_Wraps(dt) == (now + dt) % (MaxTime + 1)

\* datetime.now() after a sleep or a network call of dt
Advance(dt) == Min(now + dt, MaxTime)

\* the wall clock advances (sleeps, network time)
Tick ==
  /\ now < MaxTime
  /\ now' = now + 1
  /\ UNCHANGED <<leads, contacts, links, start_time, max_runtime, should_stop, log,
                 writers, resolved, runVars>>

(* --------------------------- listing upsert --------------------------- *)
TargetStates == {"GA", "LA", "FL"}

\* outcome of prisma.lead.create under the unique constraint on zid
CreateLead(ls, zid, link) ==
  IF LeadUniqueViolation(ls, zid)
  THEN [raised |-> TRUE, id |-> NoId, leads |-> ls]
  ELSE [raised |-> FALSE, id |-> NewLeadId(ls),
        leads |-> ls \cup {[id |-> NewLeadId(ls), zid |-> zid, link |-> link,
                            attempts |-> 0]}]

\* 'link': listing.get('detailUrl', '') or None
LinkOf(listing) == OrElse(Get(listing.detailUrl, ""), None)

\* save_to_db of pyzill_fetch_listings.py up to the create call: the decided
\* status, or "create" when the function goes on to prisma.lead.create
SaveToDbLookup(listing, ls) ==
  LET zpid == Str(Get(listing.zpid, "")) IN
  IF zpid = "" THEN [status |-> "error", id |-> NoId]
  ELSE IF FindLeadByZid(ls, zpid) # {}
  THEN [status |-> "exists", id |-> (CHOOSE l \in FindLeadByZid(ls, zpid) : TRUE).id]
  ELSE [status |-> "create", id |-> NoId]

\* save_listing_to_db of zillow_complete_scraper.py up to the create call
SaveListingToDbLookup(listing, ls, timedOut) ==
  LET zpid == Str(Get(listing.zpid, ""))
      state_code == OrElse(Get(listing.addressState, ""), "Unknown")
  IN
  IF timedOut THEN [status |-> "timeout", id |-> NoId]
  ELSE IF zpid = "" THEN [status |-> "error", id |-> NoId]
  ELSE IF FindLeadByZid(ls, zpid) # {}
  THEN [status |-> "exists", id |-> (CHOOSE l \in FindLeadByZid(ls, zpid) : TRUE).id]
  ELSE IF state_code \notin TargetStates
  THEN [status |-> "skip", id |-> NoId]
  ELSE [status |-> "create", id |-> NoId]

\* the create call and the except clauses around it: a raised create is
\* reported as "error" by both functions
UpsertCreate(listing, ls) ==
  LET c == CreateLead(ls, Str(Get(listing.zpid, "")), LinkOf(listing)) IN
  IF c.raised THEN [status |-> "error", id |-> NoId, leads |-> ls]
  ELSE [status |-> "created", id |-> c.id, leads |-> c.leads]

\* save_to_db: returns (status, id) and the store it leaves
SaveToDbResult(listing, ls) ==
  LET p == SaveToDbLookup(listing, ls) IN
  IF p.status # "create" THEN [status |-> p.status, id |-> p.id, leads |-> ls]
  ELSE UpsertCreate(listing, ls)

\* save_listing_to_db: returns (status, id) and the store it leaves
SaveListingToDbResult(listing, ls, timedOut) ==
  LET p == SaveListingToDbLookup(listing, ls, timedOut) IN
  IF p.status # "create" THEN [status |-> p.status, id |-> p.id, leads |-> ls]
  ELSE UpsertCreate(listing, ls)

LogEntry(fn, listing, timedOut, r) ==
  [fn |-> fn, listing |-> listing, timedOut |-> timedOut,
   status |-> r.status, id |-> r.id]

\* one complete call of save_to_db
SaveToDb(listing) ==
  /\ Len(log) < MaxLog
  /\ LET r == SaveToDbResult(listing, leads) IN
       /\ leads' = r.leads
       /\ log' = Append(log, LogEntry("save_to_db", listing, FALSE, r))
  /\ UNCHANGED <<contacts, links, now, start_time, max_runtime, should_stop, writers, resolved, runVars>>

\* one complete call of save_listing_to_db
SaveListingToDb(listing) ==
  /\ Len(log) < MaxLog
  /\ LET r == SaveListingToDbResult(listing, leads, is_timeout) IN
       /\ leads' = r.leads
       /\ log' = Append(log, LogEntry("save_listing_to_db", listing, is_timeout, r))
  /\ UNCHANGED <<contacts, links, now, start_time, max_runtime, should_stop, writers, resolved, runVars>>


(* ----------------------- contact reconciliation ----------------------- *)
AgentIds == {"a1"}
Phones == {"p1", "p2"}
Names == {"n1"}
\* candidate contacts: contact-shaped dicts of the payloads
Candidates == [agentId : {None} \cup AgentIds, phoneNumber : {None} \cup Phones,
               name : {None} \cup Names]

\* prisma.contact.find_unique(where={'agentId': a})
FindContactByAgentId(cs, a) == {c \in cs : c.agentId = a}

\* prisma.contact.find_first(where={'phoneNumber': p}): the matching rows; the
\* call returns the one with the least id
FindContactsByPhone(cs, p) == {c \in cs : c.phone = p}

FirstOf(rows) == CHOOSE c \in rows : \A d \in rows : c.id <= d.id

NewContactId(cs) == Cardinality(cs) + 1

\* prisma.contact.create: phoneNumber is required, agentId is unique when set
CreateContact(cs, agentId, phone, name) ==
  IF phone = None \/ (agentId # None /\ FindContactByAgentId(cs, agentId) # {})
  THEN [raised |-> TRUE, id |-> NoId, contacts |-> cs]
  ELSE [raised |-> FALSE, id |-> NewContactId(cs),
        contacts |-> cs \cup {[id |-> NewContactId(cs), agentId |-> agentId,
                               phone |-> phone, name |-> name]}]

\* a connect that undoes the association of a connected pair
Connect_Toggle(lk, leadId, contactId) ==
  IF <<leadId, contactId>> \in lk THEN lk \ {<<leadId, contactId>>}
  ELSE lk \cup {<<leadId, contactId>>}

\* data={'contacts': {'connect': {'id': contactId}}}; connecting a connected
\* pair leaves the relation as it is
Connect(lk, leadId, contactId) == lk \cup {<<leadId, contactId>>}

\* the candidate carries both identity keys
Keyed(cand) == Truthy(cand.agentId) /\ Truthy(cand.phoneNumber)

\* placeholder phone of extract_contact_from_listing
PlaceholderPhone == "000-000-0000"

\* extract_contact_from_listing of pyzill_fetch_listings.py, from the
\* collected contact_info on: the store it leaves and whether it returned a contact
ExtractContactResult(ci, leadId, cs, lk) ==
  IF ~Truthy(ci.phoneNumber) /\ ~Truthy(ci.name)
  THEN [contacts |-> cs, links |-> lk, returned |-> FALSE]
  ELSE LET phone == IF ~Truthy(ci.phoneNumber) THEN PlaceholderPhone ELSE ci.phoneNumber
           existing == IF Truthy(ci.agentId) THEN FindContactByAgentId(cs, ci.agentId) ELSE {}
       IN IF existing # {}
          THEN [contacts |-> cs, links |-> Connect(lk, leadId, FirstOf(existing).id),
                returned |-> TRUE]
          ELSE LET c == CreateContact(cs, ci.agentId, phone, ci.name) IN
               IF c.raised THEN [contacts |-> cs, links |-> lk, returned |-> FALSE]
               ELSE [contacts |-> c.contacts, links |-> Connect(lk, leadId, c.id),
                     returned |-> TRUE]

\* create_contacts_from_scraped_data of zillow_complete_scraper.py
RECURSIVE CompleteCreateLoop(_, _, _, _)
CompleteCreateLoop(data, leadId, cs, lk) ==
  IF data = <<>> THEN [contacts |-> cs, links |-> lk, created |-> 0]
  ELSE LET ci == Head(data)
           existing == FindContactsByPhone(cs, ci.phoneNumber)
       IN IF ~Truthy(ci.phoneNumber) THEN CompleteCreateLoop(Tail(data), leadId, cs, lk)
          ELSE IF existing # {}
          THEN LET r == CompleteCreateLoop(Tail(data), leadId, cs,
                                           Connect(lk, leadId, FirstOf(existing).id))
               IN [r EXCEPT !.created = @ + 1]
          ELSE LET c == CreateContact(cs, None, ci.phoneNumber, ci.name)
                   r == CompleteCreateLoop(Tail(data), leadId, c.contacts,
                          IF c.raised THEN lk ELSE Connect(lk, leadId, c.id))
               IN [r EXCEPT !.created = @ + (IF c.raised THEN 0 ELSE 1)]

\* create_contacts_from_scraped_data of scraper_api_contacts.py: one create per
\* phone, the first min(len(names), len(phones)) of them with a name
RECURSIVE ApiCreateEach(_, _, _, _, _)
ApiCreateEach(phones, names, leadId, cs, lk) ==
  IF phones = <<>> THEN [contacts |-> cs, links |-> lk, created |-> 0]
  ELSE LET c == CreateContact(cs, None, Head(phones),
                              IF names = <<>> THEN None ELSE Head(names))
           r == ApiCreateEach(Tail(phones), IF names = <<>> THEN <<>> ELSE Tail(names),
                              leadId, c.contacts,
                              IF c.raised THEN lk ELSE Connect(lk, leadId, c.id))
       IN [r EXCEPT !.created = @ + (IF c.raised THEN 0 ELSE 1)]


\* the same creates, each new contact keeping the links of this listing only
ApiCreateContactsResult_Relink(agent_info, leadId, cs, lk) ==
  LET pairs == IF agent_info.names # <<>> /\ agent_info.phones # <<>>
               THEN Min(Len(agent_info.names), Len(agent_info.phones)) ELSE 0
      paired == ApiCreateEach(SubSeq(agent_info.phones, 1, pairs),
                              SubSeq(agent_info.names, 1, pairs), leadId, cs, lk)
      rest == ApiCreateEach(SubSeq(agent_info.phones, paired.created + 1,
                                   Len(agent_info.phones)),
                            <<>>, leadId, paired.contacts, paired.links)
  IN [rest EXCEPT !.created = @ + paired.created,
                  !.links = IF rest.links = lk THEN lk ELSE {x \in @ : x[1] = leadId}]

\* create_contacts_from_scraped_data of scraper_api_contacts.py, names paired
\* with phones first, then the phones left over
ApiCreateContactsResult(agent_info, leadId, cs, lk) ==
  LET pairs == IF agent_info.names # <<>> /\ agent_info.phones # <<>>
               THEN Min(Len(agent_info.names), Len(agent_info.phones)) ELSE 0
      paired == ApiCreateEach(SubSeq(agent_info.phones, 1, pairs),
                              SubSeq(agent_info.names, 1, pairs), leadId, cs, lk)
      rest == ApiCreateEach(SubSeq(agent_info.phones, paired.created + 1,
                                   Len(agent_info.phones)),
                            <<>>, leadId, paired.contacts, paired.links)
  IN [rest EXCEPT !.created = @ + paired.created]

\* update_contact_info of src/zillow_scraper.py: by agentId, then by phone; a
\* matched row takes the candidate's non-empty fields; an exception ends the loop
RECURSIVE ZsUpdateLoop(_, _, _, _)
ZsUpdateLoop(cands, leadId, cs, lk) ==
  IF cands = <<>> THEN [contacts |-> cs, links |-> lk, ok |-> TRUE]
  ELSE LET ci == Head(cands)
           byAgent == IF Truthy(ci.agentId) THEN FindContactByAgentId(cs, ci.agentId) ELSE {}
           byPhone == FindContactsByPhone(cs, ci.phoneNumber)
           existing == IF byAgent # {} THEN byAgent ELSE byPhone
       IN IF existing # {}
          THEN LET e == FirstOf(existing)
                   upd == [e EXCEPT !.name = IF Truthy(ci.name) THEN ci.name ELSE e.name,
                                    !.agentId = IF Truthy(ci.agentId) THEN ci.agentId
                                                ELSE e.agentId]
               IN ZsUpdateLoop(Tail(cands), leadId, (cs \ {e}) \cup {upd},
                               Connect(lk, leadId, e.id))
          ELSE LET c == CreateContact(cs, ci.agentId, ci.phoneNumber, ci.name) IN
               IF c.raised THEN [contacts |-> cs, links |-> lk, ok |-> FALSE]
               ELSE ZsUpdateLoop(Tail(cands), leadId, c.contacts,
                                 Connect(lk, leadId, c.id))


\* the nested contact creates of db.lead.create in save_to_db of src/zillow_scraper.py
RECURSIVE ZsNestedCreate(_, _, _, _)
ZsNestedCreate(data, leadId, cs, lk) ==
  IF data = <<>> THEN [raised |-> FALSE, contacts |-> cs, links |-> lk]
  ELSE LET c == CreateContact(cs, Head(data).agentId, Head(data).phoneNumber,
                              Head(data).name)
       IN IF c.raised THEN [raised |-> TRUE, contacts |-> cs, links |-> lk]
          ELSE ZsNestedCreate(Tail(data), leadId, c.contacts, Connect(lk, leadId, c.id))

\* the candidates of listing['contacts'] that save_to_db keeps: those with no
\* agentId or whose agentId matches no Contact
ZsContactsData(cands, cs) ==
  SelectSeq(cands, LAMBDA c : ~(Truthy(c.agentId) /\ FindContactByAgentId(cs, c.agentId) # {}))

\* save_to_db of src/zillow_scraper.py: lead and contacts are created in one
\* nested write, which fails as a whole
ZsSaveToDbResult(listing, cands, ls, cs, lk) ==
  LET zid == Str(Get(listing.zpid, ""))
      unchanged == [leads |-> ls, contacts |-> cs, links |-> lk]
  IN IF FindLeadByZid(ls, zid) # {} THEN [status |-> "exists", id |-> NoId] @@ unchanged
     ELSE LET l == CreateLead(ls, zid, Get(listing.detailUrl, ""))
              n == ZsNestedCreate(ZsContactsData(cands, cs), l.id, cs, lk)
          IN IF l.raised \/ n.raised THEN [status |-> "error", id |-> NoId] @@ unchanged
             ELSE [status |-> "created", id |-> l.id, leads |-> l.leads,
                   contacts |-> n.contacts, links |-> n.links]

(* ---------------- specification: contact reconciliation --------------- *)
ContactListings == [zpid : {"z1", "z2"}, addressState : {"GA"}, detailUrl : {"http://x"}]

\* candidate lists handed to one reconciliation call
\* lists of two start with a candidate that has a phone, and name both agents
CandidateLists == {<<>>} \cup {<<c>> : c \in Candidates}
                    \cup {cd \in Candidates \X Candidates :
                            /\ cd[1].phoneNumber # None
                            /\ cd[1].name # None /\ cd[2].name # None}

\* scraped contacts of zillow_complete_scraper.py carry name and phone only
ScrapedLists == {cl \in CandidateLists : cl # <<>> /\ \A i \in 1..Len(cl) : cl[i].agentId = None}

\* agent_info of scraper_api_contacts.py: de-duplicated names and phones
AgentInfos == [names : {<<>>} \cup {<<n>> : n \in Names},
               phones : {<<>>} \cup {<<q>> : q \in Phones}
                          \cup {qr \in Phones \X Phones : qr[1] # qr[2]}]

LeadIds == {l.id : l \in leads}

\* the Contact update_contact_info finds for a candidate: by agentId, else by phone
ZsExisting(ci, cs) ==
  LET byAgent == IF Truthy(ci.agentId) THEN FindContactByAgentId(cs, ci.agentId) ELSE {}
  IN IF byAgent # {} THEN byAgent ELSE FindContactsByPhone(cs, ci.phoneNumber)

\* the rows found are a Contact that the lead is connected to already
AlreadyLinked(existing, leadId, lk) ==
  existing # {} /\ <<leadId, FirstOf(existing).id>> \in lk

\* the function has met a connected pair ahead of another candidate, and has
\* resolved every candidate of the call
Relinked(fn, first, more, leadId, ok) ==
  IF more /\ AlreadyLinked(first, leadId, links) /\ ok THEN {fn} ELSE {}

KeyedOf(cands, leadId) ==
  {<<leadId, cands[i].agentId, cands[i].phoneNumber>> : i \in {k \in 1..Len(cands) : Keyed(cands[k])}}

\* save_to_db of src/zillow_scraper.py on one listing with its contacts
ZsSaveToDb(listing, cands) ==
  /\ Cardinality(contacts) + Len(cands) <= MaxContacts
  /\ LET r == ZsSaveToDbResult(listing, cands, leads, contacts, links) IN
       /\ leads' = r.leads
       /\ contacts' = r.contacts
       /\ links' = r.links
       /\ resolved' = IF r.status = "created" THEN resolved \cup KeyedOf(cands, r.id)
                      ELSE resolved
  /\ UNCHANGED <<now, start_time, max_runtime, should_stop, log, writers, runVars>>

\* extract_contact_from_listing on a stored lead
ExtractContact(leadId, ci) ==
  /\ leadId \in LeadIds
  /\ Cardinality(contacts) < MaxContacts
  /\ LET r == ExtractContactResult(ci, leadId, contacts, links) IN
       /\ contacts' = r.contacts
       /\ links' = r.links
  /\ resolved' = resolved \cup KeyedOf(<<ci>>, leadId)
  /\ UNCHANGED <<leads, now, start_time, max_runtime, should_stop, log, writers, runVars>>

\* create_contacts_from_scraped_data (zillow_complete_scraper.py) on a stored lead
CompleteCreateContacts(leadId, data) ==
  /\ leadId \in LeadIds
  /\ LET r == CompleteCreateLoop(data, leadId, contacts, links) IN
       /\ Cardinality(r.contacts) <= MaxContacts
       /\ contacts' = r.contacts
       /\ links' = r.links
       /\ obs' = [obs EXCEPT !.relinked = @ \cup
                    Relinked("create_contacts_from_scraped_data",
                             FindContactsByPhone(contacts, Head(data).phoneNumber),
                             Len(data) > 1, leadId, r.created = Len(data))]
  /\ UNCHANGED <<leads, now, start_time, max_runtime, should_stop, log, writers, resolved,
                 run, counts, env>>

\* create_contacts_from_scraped_data (scraper_api_contacts.py) on a stored lead
ApiCreateContacts(leadId, agent_info) ==
  /\ leadId \in LeadIds
  /\ Cardinality(contacts) + Len(agent_info.phones) <= MaxContacts
  /\ LET r == ApiCreateContactsResult(agent_info, leadId, contacts, links) IN
       /\ contacts' = r.contacts
       /\ links' = r.links
  /\ UNCHANGED <<leads, now, start_time, max_runtime, should_stop, log, writers, resolved, runVars>>

\* update_contact_info (src/zillow_scraper.py) on a stored lead
ZsUpdateContactInfo(leadId, cands) ==
  /\ leadId \in LeadIds
  /\ cands # <<>>
  /\ LET r == ZsUpdateLoop(cands, leadId, contacts, links) IN
       /\ Cardinality(r.contacts) <= MaxContacts
       /\ contacts' = r.contacts
       /\ links' = r.links
       /\ resolved' = IF r.ok THEN resolved \cup KeyedOf(cands, leadId) ELSE resolved
       /\ obs' = [obs EXCEPT !.relinked = @ \cup
                    Relinked("update_contact_info", ZsExisting(Head(cands), contacts),
                             Len(cands) > 1, leadId, r.ok)]
  /\ UNCHANGED <<leads, now, start_time, max_runtime, should_stop, log, writers,
                 run, counts, env>>

InitContacts ==
  /\ StoreEmpty
  /\ now = 0 /\ start_time = 0 /\ max_runtime = MaxBudget /\ should_stop = FALSE
  /\ log = <<>> /\ WritersIdle /\ resolved = {} /\ RunIdle

NextContacts ==
  \/ \E listing \in ContactListings, cands \in CandidateLists : ZsSaveToDb(listing, cands)
  \/ \E leadId \in LeadIds, ci \in Candidates : ExtractContact(leadId, ci)
  \/ \E leadId \in LeadIds, data \in ScrapedLists : CompleteCreateContacts(leadId, data)
  \/ \E leadId \in LeadIds, agent_info \in AgentInfos : ApiCreateContacts(leadId, agent_info)
  \/ \E leadId \in LeadIds, cands \in CandidateLists : ZsUpdateContactInfo(leadId, cands)

SpecContacts == InitContacts /\ [][NextContacts]_vars

(* ------------------------------ C2 ------------------------------------ *)
\* C2: no two Contact rows share a non-null agentId, and no two Contact rows
\* without an agentId share a phoneNumber.
C2_NoDuplicateContact ==
  \A c \in contacts, d \in contacts :
    c # d =>
      /\ c.agentId # None => c.agentId # d.agentId
      /\ (c.agentId = None /\ d.agentId = None) => c.phone # d.phone

(* ------------------------------ C3 ------------------------------------ *)
\* C3: after two candidates with the same agentId and different phones were
\* resolved for two different listings, exactly one Contact has that agentId
\* and it is linked to both listings.
C3_OneContactBothListings ==
  \A r \in resolved, q \in resolved :
    (r[2] = q[2] /\ r[3] # q[3] /\ r[1] # q[1]) =>
      /\ Cardinality(FindContactByAgentId(contacts, r[2])) = 1
      /\ \A c \in FindContactByAgentId(contacts, r[2]) :
           <<r[1], c.id>> \in links /\ <<q[1], c.id>> \in links


(* --------------- specification: the reconciling functions -------------- *)
\* the functions that look a candidate up before creating a Contact:
\* extract_contact_from_listing, update_contact_info and
\* create_contacts_from_scraped_data of zillow_complete_scraper.py, on the
\* listing that the listing run has stored
StoredLeads ==
  { {[id |-> 1, zid |-> "z1", link |-> "http://x", attempts |-> 0]} }

\* a later page names the agent of a known phone or agentId differently
Renamings == [agentId : {None} \cup AgentIds, phoneNumber : Phones, name : {"n2"}]

InitReconcile ==
  /\ leads \in StoredLeads /\ contacts = {} /\ links = {}
  /\ now = 0 /\ start_time = 0 /\ max_runtime = MaxBudget /\ should_stop = FALSE
  /\ log = <<>> /\ WritersIdle /\ resolved = {} /\ RunIdle

NextReconcile ==
  \/ \E leadId \in LeadIds, ci \in Candidates : ExtractContact(leadId, ci)
  \/ \E leadId \in LeadIds, data \in ScrapedLists : CompleteCreateContacts(leadId, data)
  \/ \E leadId \in LeadIds, cands \in CandidateLists \cup {<<c>> : c \in Renamings} :
       ZsUpdateContactInfo(leadId, cands)

SpecReconcile == InitReconcile /\ [][NextReconcile]_vars

\* the Contact rows a step adds to the store
NewRows == {c \in contacts' : \A e \in contacts : e.id # c.id}

\* C12: reconciliation links an existing Contact that has the candidate's
\* agentId, otherwise one that has its phone, and creates a Contact only when
\* neither key matched: no step adds a Contact whose agentId or phone a
\* Contact of the store already had
C12_CreatedOnlyWhenUnmatched ==
  [][\A c \in NewRows : \A e \in contacts :
       /\ c.agentId # None => e.agentId # c.agentId
       /\ e.phone # c.phone]_vars

\* C13: when a candidate matches an existing Contact, every descriptive field
\* of that Contact that is not null keeps its value; only null fields change
C13_NonNullFieldsKept ==
  [][\A e \in contacts : \A c \in contacts' :
       c.id = e.id =>
         /\ e.name # None => c.name = e.name
         /\ e.agentId # None => c.agentId = e.agentId
         /\ c.phone = e.phone]_vars

C16_EveryContactHasSourcePhone == \A c \in contacts : c.phone \in Phones

(* --------------------------- contact schedulers ------------------------ *)
\* 'contactFetchAttempts': {'lt': 5} of process_zillow_leads
ApiCeiling == 5
\* 'contactFetchAttempts': {'lt': 1} of process_zillow_contacts
CompleteCeiling == 1
\* take=15 of process_zillow_leads
ApiTake == 15
\* MAX_CONTACTS_TO_PROCESS
CompleteTake == 8
\* MAX_RETRIES of scraper_api_contacts.py
ApiMaxRetries == 3

Scheds == {"api", "complete"}
Ceiling(sched) == IF sched = "api" THEN ApiCeiling ELSE CompleteCeiling

\* 'contacts': {'none': {}}
HasContacts(lk, leadId) == \E x \in lk : x[1] = leadId

\* a selection that ignores the attempt counter
Eligible_NoCeiling(l, lk, ceiling) ==
  /\ ~HasContacts(lk, l.id)
  /\ l.link # None

\* the where clause of find_many in both schedulers
Eligible(l, lk, ceiling) ==
  /\ ~HasContacts(lk, l.id)
  /\ l.attempts < ceiling
  /\ l.link # None

\* rows in primary-key order
RECURSIVE ById(_)
ById(rows) ==
  IF rows = {} THEN <<>>
  ELSE LET f == FirstOf(rows) IN <<f>> \o ById(rows \ {f})

\* find_many without the condition on contactFetchAttempts
SelectEligible_NoCeiling(ls, lk, ceiling, take) ==
  LET all == ById({l \in ls : ~HasContacts(lk, l.id) /\ l.link # None}) IN
  SubSeq(all, 1, Min(take, Len(all)))

\* find_many(where=..., take=n)
SelectEligible(ls, lk, ceiling, take) ==
  LET all == ById({l \in ls : Eligible(l, lk, ceiling)}) IN
  SubSeq(all, 1, Min(take, Len(all)))

\* the counter write, clearing the detail URL as well
BumpAttempts_Flag(ls, lead) ==
  {IF l.id = lead.id THEN [l EXCEPT !.attempts = lead.attempts + 1, !.link = None] ELSE l
     : l \in ls}

\* data={'contactFetchAttempts': lead.contactFetchAttempts + 1}, from the
\* row as it was selected
BumpAttempts(ls, lead) ==
  {IF l.id = lead.id THEN [l EXCEPT !.attempts = lead.attempts + 1] ELSE l : l \in ls}

\* what is observed of a new process: nothing yet, and the store it found
NewObs == [NoObs EXCEPT !.leads0 = Cardinality(leads), !.contacts0 = Cardinality(contacts),
                        !.turns = obs.turns]

\* a new process: its clock, budget and counters
NewProcess(budget) ==
  /\ now' = 0
  /\ start_time' = 0
  /\ max_runtime' = budget
  /\ should_stop' = FALSE
  /\ counts' = ZeroCounts

\* the listings a scheduler pass goes by without selecting them
PassedOver(batch, ceiling) ==
  {l.zid : l \in {r \in leads : /\ r.zid \in env.failing
                                 /\ r.link # None
                                 /\ ~Eligible(r, links, ceiling)
                                 /\ \A i \in 1..Len(batch) : batch[i].id # r.id}}

TurnsAfter(zids) == [z \in Zids |-> IF z \in zids THEN obs.turns[z] + 1 ELSE obs.turns[z]]

PassesLeft == \A z \in Zids : obs.turns[z] < MaxPasses

\* answers of the rendering gateway to one request of scraper_api_contacts.py
ApiOutcomes(lead) ==
  IF lead.zid \in env.failing THEN {"403", "404", "other", "exception"}
  ELSE {"info", "noinfo", "403", "404", "other", "exception"}

\* process_zillow_leads up to its loop: the selection
ApiStart(budget) ==
  /\ run.pc = "idle" /\ env.sched \in {"api", "any"} /\ PassesLeft
  /\ NewProcess(budget)
  /\ LET batch == SelectEligible(leads, links, ApiCeiling, ApiTake) IN
       /\ run' = IF batch = <<>> THEN [IdleRun EXCEPT !.script = "api", !.result = "no leads"]
                 ELSE [IdleRun EXCEPT !.script = "api", !.pc = "loop", !.batch = batch,
                                      !.idx = 1]
       /\ obs' = [NewObs EXCEPT !.turns = TurnsAfter(PassedOver(batch, ApiCeiling))]
  /\ UNCHANGED <<leads, contacts, links, log, writers, resolved, env>>

\* top of the per-lead loop: the deadline check, then the counter write
ApiLoop ==
  /\ run.script = "api" /\ run.pc = "loop"
  /\ IF run.idx > Len(run.batch) \/ IsTimeout(now, start_time, max_runtime, FALSE)
     THEN /\ run' = [IdleRun EXCEPT !.script = "api", !.result = "summary"]
          /\ UNCHANGED <<leads, counts, obs>>
     ELSE LET lead == run.batch[run.idx] IN
          /\ leads' = BumpAttempts(leads, lead)
          /\ counts' = [counts EXCEPT !.processed = @ + 1]
          /\ run' = [run EXCEPT !.pc = "fetch", !.attempt = 0]
          /\ obs' = [obs EXCEPT !.turns = TurnsAfter({lead.zid} \cap env.failing)]
  /\ UNCHANGED <<contacts, links, now, start_time, max_runtime, should_stop, log,
                 writers, resolved, env>>

\* one request of scrape_property_contacts, the backoff sleep after it and,
\* when the function returns, create_contacts_from_scraped_data and the
\* delay before the next lead
ApiFetch(outcome, agent_info, dt) ==
  /\ run.script = "api" /\ run.pc = "fetch"
  /\ outcome \in ApiOutcomes(run.batch[run.idx])
  /\ now' = Min(now + dt, MaxTime)
  /\ LET lead == run.batch[run.idx]
         late == IF IsTimeout(now, start_time, max_runtime, FALSE)
                 THEN {IF run.attempt = 0 THEN "detail_fetch" ELSE "retry"} ELSE {}
         nextLead == [run EXCEPT !.pc = "loop", !.idx = @ + 1, !.attempt = 0]
     IN
     IF outcome = "info"
     THEN /\ agent_info.phones # <<>> \/ agent_info.names # <<>>
          /\ Cardinality(contacts) + Len(agent_info.phones) <= MaxContacts
          /\ LET r == ApiCreateContactsResult(agent_info, lead.id, contacts, links) IN
               /\ contacts' = r.contacts
               /\ links' = r.links
               /\ counts' = [counts EXCEPT !.created = @ + r.created,
                                           !.errors = @ + (IF r.created > 0 THEN 0 ELSE 1)]
               /\ obs' = [obs EXCEPT !.fetched = @ \cup {"detail_page"}, !.late = @ \cup late]
          /\ run' = nextLead
     ELSE /\ agent_info = [names |-> <<>>, phones |-> <<>>]
          /\ obs' = [obs EXCEPT !.fetched = @ \cup {"detail_page"}, !.late = @ \cup late]
          /\ UNCHANGED <<contacts, links>>
          /\ IF outcome = "404" \/ run.attempt >= ApiMaxRetries - 1
             THEN /\ counts' = [counts EXCEPT !.errors = @ + 1]
                  /\ run' = nextLead
             ELSE /\ counts' = counts
                  /\ run' = [run EXCEPT !.attempt = @ + 1]
  /\ UNCHANGED <<leads, start_time, max_runtime, should_stop, log, writers, resolved, env>>

\* what scrape_property_contacts of zillow_complete_scraper.py comes back with
CompleteOutcomes(lead) ==
  IF lead.zid \in env.failing THEN {"none", "exception"}
  ELSE {"info", "none", "exception"}

\* extract_agent_info returns one contact with a name and a phone, or nothing
ExtractedLists ==
  {<<c>> : c \in {d \in Candidates : d.agentId = None /\ d.phoneNumber # None /\ d.name # None}}

\* process_zillow_contacts up to its loop: the selection
CompleteStart(budget) ==
  /\ run.pc = "idle" /\ env.sched \in {"complete", "any"} /\ PassesLeft
  /\ NewProcess(budget)
  /\ LET batch == SelectEligible(leads, links, CompleteCeiling, CompleteTake) IN
       /\ run' = IF batch = <<>>
                 THEN [IdleRun EXCEPT !.script = "complete", !.result = "no leads"]
                 ELSE [IdleRun EXCEPT !.script = "complete", !.pc = "loop",
                                      !.batch = batch, !.idx = 1]
       /\ obs' = [NewObs EXCEPT !.turns = TurnsAfter(PassedOver(batch, CompleteCeiling))]
  /\ UNCHANGED <<leads, contacts, links, log, writers, resolved, env>>

\* top of the per-lead loop: state.is_timeout(), then the counter write
CompleteLoop ==
  /\ run.script = "complete" /\ run.pc = "loop"
  /\ IF run.idx > Len(run.batch) \/ is_timeout
     THEN /\ run' = [IdleRun EXCEPT !.script = "complete", !.result = "summary"]
          /\ UNCHANGED <<leads, counts, obs>>
     ELSE LET lead == run.batch[run.idx] IN
          /\ leads' = BumpAttempts(leads, lead)
          /\ counts' = [counts EXCEPT !.processed = @ + 1]
          /\ run' = [run EXCEPT !.pc = "fetch", !.attempt = 0]
          /\ obs' = [obs EXCEPT !.turns = TurnsAfter({lead.zid} \cap env.failing)]
  /\ UNCHANGED <<contacts, links, now, start_time, max_runtime, should_stop, log,
                 writers, resolved, env>>

\* scrape_property_contacts (one request), create_contacts_from_scraped_data
\* and the delay before the next lead
CompleteFetch(outcome, data, dt) ==
  /\ run.script = "complete" /\ run.pc = "fetch"
  /\ outcome \in CompleteOutcomes(run.batch[run.idx])
  /\ now' = Min(now + dt, MaxTime)
  /\ LET lead == run.batch[run.idx]
         late == IF is_timeout THEN {"detail_fetch"} ELSE {}
     IN
     IF outcome = "info"
     THEN /\ data # <<>>
          /\ Cardinality(contacts) + Len(data) <= MaxContacts
          /\ LET r == CompleteCreateLoop(data, lead.id, contacts, links) IN
               /\ contacts' = r.contacts
               /\ links' = r.links
               /\ counts' = [counts EXCEPT !.created = @ + r.created]
               /\ obs' = [obs EXCEPT !.fetched = @ \cup {"detail_page"}, !.late = @ \cup late]
     ELSE /\ data = <<>>
          /\ obs' = [obs EXCEPT !.fetched = @ \cup (IF outcome = "exception" THEN {}
                                                     ELSE {"detail_page"}),
                                !.late = @ \cup (IF outcome = "exception" THEN {} ELSE late)]
          /\ UNCHANGED <<contacts, links, counts>>
  /\ run' = [run EXCEPT !.pc = "loop", !.idx = @ + 1]
  /\ UNCHANGED <<leads, start_time, max_runtime, should_stop, log, writers, resolved, env>>


(* ----------------------------- listing run ----------------------------- *)
\* len(PROXY_SESSIONS)
ProxySessions == 5
\* max_attempts = len(PROXY_SESSIONS) * 2
MaxAttempts == ProxySessions * 2
\* target_states = ['GA', 'LA', 'FL'], by position
Partitions == 3

\* search results the listing source answers with
RunListings ==
  { [zpid |-> "z1", addressState |-> "GA", detailUrl |-> "http://x"],
    [zpid |-> "z2", addressState |-> "TX", detailUrl |-> "http://x"],
    [zpid |-> Missing, addressState |-> "GA", detailUrl |-> "http://x"] }

\* response.get('listResults', []) of one page; the pages of one search show
\* each listing once
PageResults == {<<a>> : a \in RunListings}
                 \cup {<<a, b>> : a \in {l \in RunListings : l.zpid = "z1"},
                                 b \in {l \in RunListings : l.zpid = "z2"}}

\* main up to the call of fetch_zillow_listings
ListingsStart(budget) ==
  /\ run.pc = "idle"
  /\ NewProcess(budget)
  /\ run' = [IdleRun EXCEPT !.script = "listings", !.pc = "fzl"]
  /\ obs' = NewObs
  /\ UNCHANGED <<leads, contacts, links, log, writers, resolved, env>>

\* fetch_zillow_listings up to its loop: the budget check and the proxy test
FzlBegin(skip_proxy_test, dt) ==
  /\ run.script = "listings" /\ run.pc = "fzl"
  /\ IF is_timeout
     THEN /\ run' = [IdleRun EXCEPT !.script = "listings", !.result = "failed"]
          /\ UNCHANGED <<now, obs>>
     ELSE /\ run' = [run EXCEPT !.pc = "state", !.part = 1]
          /\ IF skip_proxy_test THEN dt = 0 /\ UNCHANGED <<now, obs>>
             ELSE /\ now' = Advance(dt)
                  /\ obs' = [obs EXCEPT !.fetched = @ \cup {"proxy_test"}]
  /\ UNCHANGED <<leads, contacts, links, start_time, max_runtime, should_stop, log,
                 writers, resolved, counts, env>>

\* top of the loop over the target states
FzlState ==
  /\ run.script = "listings" /\ run.pc = "state"
  /\ IF run.part > Partitions \/ is_timeout
     THEN run' = [IdleRun EXCEPT !.script = "listings", !.result = "summary"]
     ELSE run' = [run EXCEPT !.pc = "page", !.page = 1, !.batch = <<>>]
  /\ UNCHANGED <<leads, contacts, links, now, start_time, max_runtime, should_stop, log,
                 writers, resolved, counts, obs, env>>

\* where fetch_listings leaves the state loop once its pages are in
AfterPages(all_results) ==
  IF all_results = <<>>
  THEN [run EXCEPT !.pc = "state", !.part = @ + 1, !.batch = <<>>]
  ELSE [run EXCEPT !.pc = "item", !.batch = all_results, !.idx = 1]

\* one page of fetch_listings: pyzill.for_sale through k proxy sessions in
\* turn, the first k - 1 raising, and what follows the answer of the last
FzlPage(k, outcome, results, dt) ==
  /\ run.script = "listings" /\ run.pc = "page"
  /\ now' = Advance(dt)
  /\ obs' = [obs EXCEPT
               !.fetched = @ \cup {"listing_page"},
               !.late = @ \cup (IF is_timeout THEN {"listing_page"} ELSE {})
                          \cup (IF k > 1 /\ IsTimeout(Advance(dt), start_time, max_runtime,
                                                       should_stop)
                                THEN {"listing_page"} ELSE {})]
  /\ CASE outcome = "raise" ->
            /\ k = MaxAttempts
            /\ results = <<>>
            /\ run' = AfterPages(run.batch)
       [] outcome = "results" ->
            /\ results \in PageResults
            /\ \A i \in 1..Len(results), j \in 1..Len(run.batch) : results[i] # run.batch[j]
            /\ run' = [run EXCEPT !.batch = @ \o results, !.page = @ + 1]
       [] outcome = "empty" ->
            /\ results = <<>>
            /\ run' = AfterPages(run.batch)
       [] outcome = "not a dict" ->
            /\ results = <<>>
            /\ run' = [IdleRun EXCEPT !.script = "listings", !.result = "failed"]
  /\ UNCHANGED <<leads, contacts, links, start_time, max_runtime, should_stop, log,
                 writers, resolved, counts, env>>

\* the counter a status is added to, errors taken for skips
CountField_Miscount(status) ==
  CASE status = "created" -> "new"
    [] status = "exists" -> "existing"
    [] OTHER -> "skipped"

\* the counter a status is added to
CountField(status) ==
  CASE status = "created" -> "new"
    [] status = "exists" -> "existing"
    [] status = "skip" -> "skipped"
    [] OTHER -> "error"

\* one turn of the loop over the results of a state, or the end of that loop
FzlItem(dt) ==
  /\ run.script = "listings" /\ run.pc = "item"
  /\ IF run.idx > Len(run.batch) \/ is_timeout
     THEN /\ run' = [run EXCEPT !.pc = "state", !.part = @ + 1, !.batch = <<>>, !.idx = 0]
          /\ now' = IF ~is_timeout /\ run.part # Partitions THEN Advance(dt) ELSE now
          /\ UNCHANGED <<leads, counts>>
     ELSE LET r == SaveListingToDbResult(run.batch[run.idx], leads, is_timeout) IN
          /\ leads' = r.leads
          /\ counts' = [counts EXCEPT ![CountField(r.status)] = @ + 1]
          /\ run' = IF r.status = "timeout" THEN [run EXCEPT !.idx = Len(run.batch) + 1]
                    ELSE [run EXCEPT !.idx = @ + 1]
          /\ now' = IF r.status # "timeout" /\ run.idx < Len(run.batch) /\ ~is_timeout
                    THEN Advance(dt) ELSE now
  /\ UNCHANGED <<contacts, links, start_time, max_runtime, should_stop, log, writers,
                 resolved, obs, env>>

(* ------------------------------ stop signal ---------------------------- *)
\* the methods of ScraperState
ScraperStateMethods == {"is_timeout", "remaining_minutes", "set_exit"}

\* the call made by the signal_handler that setup_signal_handlers registers
\* (the later definition of that name is the one main calls)
HandlerCall == "set_timeout"

\* where the handler's exception lands: in the try block around one result
\* before the result is saved, in that try block in the log_message call that
\* follows new_count += 1, in the body of fetch_zillow_listings, or in the
\* event loop
Landings == {"item", "counted", "phase", "loop"}

\* SIGTERM or SIGINT delivered to a running listing process
Signal(landing) ==
  /\ run.script = "listings" /\ run.pc # "idle"
  /\ ~obs.signalled
  /\ IF HandlerCall \in ScraperStateMethods
     THEN /\ landing = "phase"
          /\ should_stop' = TRUE
          /\ obs' = [obs EXCEPT !.signalled = TRUE]
          /\ UNCHANGED <<run, counts, leads>>
     ELSE /\ should_stop' = should_stop
          /\ obs' = [obs EXCEPT !.signalled = TRUE, !.raised = TRUE]
          /\ CASE landing = "item" ->
                    /\ run.pc = "item" /\ run.idx <= Len(run.batch)
                    /\ counts' = [counts EXCEPT !.error = @ + 1]
                    /\ run' = [run EXCEPT !.idx = @ + 1]
                    /\ leads' = leads
               [] landing = "counted" ->
                    /\ run.pc = "item" /\ run.idx <= Len(run.batch) /\ ~is_timeout
                    /\ LET r == SaveListingToDbResult(run.batch[run.idx], leads, FALSE) IN
                         /\ r.status = "created"
                         /\ leads' = r.leads
                         /\ counts' = [counts EXCEPT !.new = @ + 1, !.error = @ + 1]
                    /\ run' = [run EXCEPT !.idx = @ + 1]
               [] landing = "phase" ->
                    /\ run' = [IdleRun EXCEPT !.script = "listings", !.result = "failed"]
                    /\ counts' = counts /\ leads' = leads
               [] landing = "loop" ->
                    /\ run' = [IdleRun EXCEPT !.script = "listings", !.result = "crashed"]
                    /\ counts' = counts /\ leads' = leads
  /\ UNCHANGED <<contacts, links, now, start_time, max_runtime, log, writers,
                 resolved, env>>

(* ------------------------ specification: runs -------------------------- *)
\* Lead rows as the listing run leaves them
SeedLead(id, zid, link) == [id |-> id, zid |-> zid, link |-> link, attempts |-> 0]

SeedStores ==
  { {},
    {SeedLead(1, "z1", "http://x")},
    {SeedLead(1, "z1", "http://x"), SeedLead(2, "z2", "http://x")},
    {SeedLead(1, "z1", "http://x"), SeedLead(2, "z2", None)} }

Durations == {0, 1}

Init ==
  /\ leads \in SeedStores /\ contacts = {} /\ links = {}
  /\ now = 0 /\ start_time = 0 /\ max_runtime = 0 /\ should_stop = FALSE
  /\ log = <<>> /\ WritersIdle /\ resolved = {}
  /\ run = IdleRun /\ counts = ZeroCounts /\ obs = NoObs
  /\ env = [sched |-> "any", failing |-> {}]

\* the process has not been started yet
NotStarted == run.script = "none"

Next ==
  \/ NotStarted /\ \E budget \in 0..MaxBudget : ListingsStart(budget)
  \/ \E skip \in BOOLEAN, dt \in Durations : FzlBegin(skip, dt)
  \/ FzlState
  \/ \E outcome \in {"raise", "results", "empty", "not a dict"}, dt \in Durations :
       \E k \in IF outcome = "raise" THEN {MaxAttempts} ELSE 1..MaxAttempts,
          results \in IF outcome = "results" THEN PageResults ELSE {<<>>} :
            FzlPage(k, outcome, results, dt)
  \/ \E dt \in Durations : FzlItem(dt)
  \/ \E landing \in Landings : Signal(landing)
  \/ NotStarted /\ \E budget \in 0..MaxBudget : ApiStart(budget)
  \/ ApiLoop
  \/ \E outcome \in {"info", "noinfo", "403", "404", "other", "exception"}, dt \in Durations :
       \E agent_info \in IF outcome = "info" THEN AgentInfos
                         ELSE {[names |-> <<>>, phones |-> <<>>]} :
         ApiFetch(outcome, agent_info, dt)
  \/ NotStarted /\ \E budget \in 0..MaxBudget : CompleteStart(budget)
  \/ CompleteLoop
  \/ \E outcome \in {"info", "none", "exception"}, dt \in Durations :
       \E data \in IF outcome = "info" THEN ExtractedLists ELSE {<<>>} :
         CompleteFetch(outcome, data, dt)

Spec == Init /\ [][Next]_vars


C8_NoWorkAfterBudget == obs.late = {}

\* C9: a stop signal delivered during a run sets the stop flag, and its
\* handler raises no exception into the running operation
C9_SignalSetsStopFlag == obs.signalled => (should_stop /\ ~obs.raised)

\* main and __main__ after the listing phase: the contact step is commented
\* out and success_contacts stays True, so the process exits with 0 when
\* fetch_zillow_listings returned True and with 1 otherwise
success_listings == run.result = "summary"
ExitStatus == IF success_listings THEN 0 ELSE 1

\* the listing run is over; it met no signal and asked for no listing page,
\* and its budget is used up: the budget alone ended it
StoppedByBudgetOnly ==
  /\ run.script = "listings" /\ run.pc = "idle" /\ run.result # "none"
  /\ ~obs.signalled /\ "listing_page" \notin obs.fetched
  /\ is_timeout

\* C20: a run that stops early only because its budget is used up, before or
\* during a phase, reports success: the listing phase result is success and
\* the exit status is 0
C20_BudgetStopIsSuccess == StoppedByBudgetOnly => (success_listings /\ ExitStatus = 0)

\* the step ends one item of the running batch in failure: the handler's
\* exception caught by the try block around one result, an "error" status of
\* save_listing_to_db, or a resolution that links no contact to its lead
ItemFailed ==
  \/ /\ run.script = "listings" /\ run.pc = "item" /\ run.idx <= Len(run.batch)
     /\ run'.pc = "item"
     /\ \/ obs'.raised /\ ~obs.raised
        \/ /\ obs' = obs /\ ~is_timeout
           /\ SaveListingToDbResult(run.batch[run.idx], leads, is_timeout).status = "error"
  \/ /\ run.script \in {"api", "complete"} /\ run.pc = "fetch" /\ run'.pc = "loop"
     /\ links' = links

\* error_count of fetch_zillow_listings and total_errors of process_zillow_leads
ErrorTally == counts.error + counts.errors

\* the batch goes on with its next item
BatchGoesOn ==
  /\ run'.batch = run.batch /\ run'.idx = run.idx + 1
  /\ run'.pc \in {"item", "loop"}

\* the step leaves the batch it was working on, and no signal arrives in it
LeavesBatch ==
  /\ run.pc \in {"item", "loop", "fetch"} /\ run'.batch # run.batch
  /\ obs'.signalled = obs.signalled

\* the budget check at the top of the loop the process is in
BudgetUsedUp ==
  IF run.script = "api" THEN IsTimeout(now, start_time, max_runtime, FALSE) ELSE is_timeout

\* C21 as stated: a failed item is counted as an error and the batch goes on
\* with its next item
C21_AsStated == [][ItemFailed => (BatchGoesOn /\ ErrorTally' = ErrorTally + 1)]_vars

\* C21: a failed item never ends the batch, which is left only after its last
\* item or when the budget is used up; fetch_zillow_listings and
\* process_zillow_leads add one to their error tally for the failed item,
\* process_zillow_contacts keeps no such tally
C21_FailedItemKeepsBatch ==
  [][/\ ItemFailed => BatchGoesOn
     /\ (ItemFailed /\ run.script # "complete") => ErrorTally' = ErrorTally + 1
     /\ (ItemFailed /\ run.script = "complete") => ErrorTally' = ErrorTally
     /\ LeavesBatch => (run.idx > Len(run.batch) \/ BudgetUsedUp)]_vars

\* process_zillow_leads is at its second lead after the first one failed
C21_Witness ==
  /\ run.script = "api" /\ run.pc = "fetch" /\ run.idx = 2
  /\ counts.errors = 1 /\ counts.processed = 2

(* ----------------------- specification: pagination -------------------- *)
\* one turn of the while True loop of fetch_listings, for a source that may
\* answer any page with records, the same ones again included: up to
\* max_attempts calls of pyzill.for_sale, then response.get('listResults').
\* The loop has no budget check, and run_sync_with_timeout waits for the
\* thread of fetch_listings to end before it returns. It returns None when
\* the thread raised (a response that is not a dict) or took longer than
\* OPERATION_TIMEOUT, and unpacking None into results, total_results raises
\* into the except clause of fetch_zillow_listings
FetchListingsTurn(outcome, results, dt) ==
  /\ run.script = "listings" /\ run.pc = "page"
  /\ now' = Advance(dt)
  /\ obs' = [obs EXCEPT !.fetched = @ \cup {"listing_page"}]
  /\ CASE outcome = "results" ->
            /\ results \in PageResults
            /\ run' = [run EXCEPT
                         !.batch = SubSeq(@ \o results, 1, Min(Len(@ \o results), MaxResults)),
                         !.page = (@ % MaxPages) + 1]
       [] outcome \in {"not a dict", "timed out"} ->
            /\ results = <<>>
            /\ run' = [IdleRun EXCEPT !.script = "listings", !.result = "failed"]
       [] OTHER ->
            /\ outcome \in {"raise", "empty"}
            /\ results = <<>>
            /\ run' = AfterPages(run.batch)
  /\ UNCHANGED <<leads, contacts, links, start_time, max_runtime, should_stop, log,
                 writers, resolved, counts, env>>

NextPaging ==
  \/ NotStarted /\ \E budget \in 0..MaxBudget : ListingsStart(budget)
  \/ \E skip \in BOOLEAN, dt \in Durations : FzlBegin(skip, dt)
  \/ FzlState
  \/ \E outcome \in {"raise", "results", "empty", "not a dict", "timed out"},
        dt \in Durations :
       \E results \in IF outcome = "results" THEN PageResults ELSE {<<>>} :
         FetchListingsTurn(outcome, results, dt)
  \/ \E dt \in Durations : FzlItem(dt)
  \/ \E landing \in Landings : Signal(landing)

\* every call returns: a process that can take a step takes one
SpecPaging == Init /\ [][NextPaging]_vars /\ WF_vars(NextPaging)

\* C32: a listing run whose budget is used up, or whose stop is requested,
\* comes to its end
C32_ExhaustedRunEnds ==
  (run.script = "listings" /\ is_timeout) ~> (run.pc = "idle")

\* C36: the fetch of one state never ends the listing phase: whatever the
\* fetch comes back with, the phase goes on with the results of that state
\* or with the next state, and is not reported as failed
C36_FailedFetchGoesOn ==
  [][(run.script = "listings" /\ run.pc = "page" /\ obs'.signalled = obs.signalled)
       => (run'.pc \in {"page", "item", "state"} /\ run'.result # "failed")]_vars

\* new_count + existing_count + error_count + skipped_count
Tallied == counts.new + counts.existing + counts.error + counts.skipped

\* C37: every record the loop over the results of a state goes past is added
\* to exactly one of the four counters, so their sum grows by one for each
\* record and by nothing else
C37_OneCountPerRecord ==
  [][(run.script = "listings" /\ run.pc # "idle")
       => /\ Tallied' = Tallied + (IF run.pc = "item" /\ run'.pc = "item"
                                      /\ run'.idx > run.idx THEN 1 ELSE 0)
          /\ \A f \in {"new", "existing", "error", "skipped"} : counts'[f] >= counts[f]]_vars

(* ------------------- specification: run deadline --------------------- *)
\* a listing run on an empty store, without signals
InitDeadline == Init /\ leads = {}

NextDeadline ==
  \/ NotStarted /\ \E budget \in 0..MaxBudget : ListingsStart(budget)
  \/ \E skip \in BOOLEAN, dt \in Durations : FzlBegin(skip, dt)
  \/ FzlState
  \/ \E outcome \in {"raise", "results", "empty", "not a dict", "timed out"},
        dt \in Durations :
       \E results \in IF outcome = "results" THEN PageResults ELSE {<<>>} :
         FetchListingsTurn(outcome, results, dt)
  \/ \E dt \in Durations : FzlItem(dt)

SpecDeadline == InitDeadline /\ [][NextDeadline]_vars

InitSched ==
  /\ leads \in SeedStores /\ contacts = {} /\ links = {}
  /\ now = 0 /\ start_time = 0 /\ max_runtime = 0 /\ should_stop = FALSE
  /\ log = <<>> /\ WritersIdle /\ resolved = {}
  /\ run = IdleRun /\ counts = ZeroCounts /\ obs = NoObs
  /\ env \in [sched : Scheds, failing : SUBSET Zids]

NextSched ==
  \/ \E budget \in 0..MaxBudget : ApiStart(budget)
  \/ ApiLoop
  \/ \E outcome \in {"info", "noinfo", "403", "404", "other", "exception"}, dt \in Durations :
       \E agent_info \in IF outcome = "info" THEN AgentInfos
                         ELSE {[names |-> <<>>, phones |-> <<>>]} :
         ApiFetch(outcome, agent_info, dt)
  \/ \E budget \in 0..MaxBudget : CompleteStart(budget)
  \/ CompleteLoop
  \/ \E outcome \in {"info", "none", "exception"}, dt \in Durations :
       \E data \in IF outcome = "info" THEN ExtractedLists ELSE {<<>>} :
         CompleteFetch(outcome, data, dt)

SpecSched == InitSched /\ [][NextSched]_vars

\* stored listings with a detail URL whose detail fetch always fails
FailingWithUrl == {l \in leads : l.zid \in env.failing /\ l.link # None}

\* C4 as stated: the counter of such a listing follows the passes up to five
C4_AsStated ==
  \A l \in FailingWithUrl : l.attempts = Min(obs.turns[l.zid], ApiCeiling)

\* C4: for a listing with a detail URL whose fetch always fails, every pass
\* that comes to the listing within its budget raises contactFetchAttempts by
\* one until the ceiling of the scheduler (5 in process_zillow_leads, 1 in
\* process_zillow_contacts), and no pass selects the listing at the ceiling
C4_CeilingPerScheduler ==
  /\ \A l \in FailingWithUrl : l.attempts = Min(obs.turns[l.zid], Ceiling(env.sched))
  /\ \A i \in 1..Len(run.batch) :
       run.batch[i].zid \in env.failing => run.batch[i].attempts < Ceiling(env.sched)

\* five passes took the counter to five and a sixth went by without selecting
C4_Witness ==
  /\ env.sched = "api"
  /\ \E l \in FailingWithUrl : obs.turns[l.zid] > ApiCeiling /\ l.attempts = ApiCeiling


\* C26 as stated: a listing that had a resolution attempt without a candidate
\* is not selected by a later pass, so every selected listing is at its
\* first attempt
C26_AsStated == \A i \in 1..Len(run.batch) : run.batch[i].attempts = 0

\* C26: a listing whose counter has reached the ceiling of the scheduler is
\* selected by no later pass of it, and a pass neither deletes a listing nor
\* changes any of its fields but the counter, which it only raises; below
\* the ceiling a listing without a candidate stays selectable
C26_ExhaustedAtCeiling ==
  /\ [](\A i \in 1..Len(run.batch) : run.batch[i].attempts < Ceiling(env.sched))
  /\ [][\A l \in leads :
          \E m \in leads' : /\ [m EXCEPT !.attempts = l.attempts] = l
                            /\ m.attempts >= l.attempts]_vars

\* process_zillow_contacts left a listing without a candidate at its ceiling
\* and a later pass went by it
C26_Witness ==
  /\ env.sched = "complete"
  /\ \E l \in FailingWithUrl :
       /\ l.attempts = CompleteCeiling /\ ~HasContacts(links, l.id)
       /\ obs.turns[l.zid] >= CompleteCeiling + 2

Runners == {1, 2}

IdleRunner == [pc |-> "idle", batch |-> <<>>, idx |-> 0]

\* find_many of process_zillow_leads or process_zillow_contacts
OverlapSelect(w) ==
  /\ writers[w].pc = "idle" /\ PassesLeft
  /\ LET batch == SelectEligible(leads, links, Ceiling(env.sched),
                                 IF env.sched = "api" THEN ApiTake ELSE CompleteTake)
     IN /\ batch # <<>>
        /\ writers' = [writers EXCEPT ![w] = [pc |-> "loop", batch |-> batch, idx |-> 1]]
  /\ UNCHANGED <<leads, contacts, links, now, start_time, max_runtime, should_stop, log,
                 resolved, runVars>>

\* top of the per-lead loop: the counter write from the row as it was
\* selected, or the end of the pass
OverlapBump(w) ==
  /\ writers[w].pc = "loop"
  /\ IF writers[w].idx > Len(writers[w].batch)
     THEN /\ writers' = [writers EXCEPT ![w] = IdleRunner]
          /\ UNCHANGED <<leads, obs>>
     ELSE LET lead == writers[w].batch[writers[w].idx] IN
          /\ leads' = BumpAttempts(leads, lead)
          /\ obs' = [obs EXCEPT !.turns = TurnsAfter({lead.zid})]
          /\ writers' = [writers EXCEPT ![w].pc = "fetch"]
  /\ UNCHANGED <<contacts, links, now, start_time, max_runtime, should_stop, log,
                 resolved, run, counts, env>>

\* scrape_property_contacts with all its requests, then
\* create_contacts_from_scraped_data
OverlapFetch(w, found) ==
  /\ writers[w].pc = "fetch"
  /\ LET lead == writers[w].batch[writers[w].idx]
         r == IF env.sched = "api"
              THEN ApiCreateContactsResult(found, lead.id, contacts, links)
              ELSE CompleteCreateLoop(found, lead.id, contacts, links)
     IN
     /\ IF (IF env.sched = "api" THEN found.phones = <<>> /\ found.names = <<>>
            ELSE found = <<>>)
        THEN UNCHANGED <<contacts, links>>
        ELSE /\ lead.zid \notin env.failing
             /\ Cardinality(r.contacts) <= MaxContacts
             /\ contacts' = r.contacts
             /\ links' = r.links
  /\ writers' = [writers EXCEPT ![w].pc = "loop", ![w].idx = @ + 1]
  /\ UNCHANGED <<leads, now, start_time, max_runtime, should_stop, log, resolved, runVars>>

InitOverlap ==
  /\ leads \in {s \in SeedStores : Cardinality(s) = 1}
  /\ contacts = {} /\ links = {}
  /\ now = 0 /\ start_time = 0 /\ max_runtime = MaxBudget /\ should_stop = FALSE
  /\ log = <<>> /\ writers = [w \in Runners |-> IdleRunner] /\ resolved = {}
  /\ run = IdleRun /\ counts = ZeroCounts /\ obs = NoObs
  /\ env \in [sched : Scheds, failing : {{}, {"z1"}}]

NextOverlap ==
  \/ \E w \in Runners : OverlapSelect(w)
  \/ \E w \in Runners : OverlapBump(w)
  \/ \E w \in Runners :
       \E found \in IF env.sched = "api"
                    THEN {i \in AgentInfos : Len(i.phones) <= 1 /\ Len(i.names) = Len(i.phones)}
                    ELSE {<<>>} \cup ExtractedLists :
         OverlapFetch(w, found)

SpecOverlap == InitOverlap /\ [][NextOverlap]_vars

\* C33: the counter of a listing never goes above the ceiling of the
\* scheduler whose passes select it, also when two passes overlap and both
\* hold the listing in their selection
C33_CounterWithinCeiling == \A l \in leads : l.attempts <= Ceiling(env.sched)

\* two overlapping passes of process_zillow_leads hold the same listing, one
\* of them from a selection made before the counter reached the ceiling
C33_Witness ==
  /\ env.sched = "api"
  /\ \E l \in leads :
       /\ l.attempts = ApiCeiling
       /\ \A w \in Runners :
            /\ writers[w].pc = "fetch"
            /\ writers[w].batch[writers[w].idx].id = l.id
       /\ \E w \in Runners : writers[w].batch[writers[w].idx].attempts < ApiCeiling - 1

\* C35: no counter write of overlapping passes is lost: the counter of a
\* listing is the number of resolution attempts made on it, and these are no
\* more than the ceiling
C35_NoLostUpdate ==
  \A l \in leads :
    /\ l.attempts = obs.turns[l.zid]
    /\ obs.turns[l.zid] <= Ceiling(env.sched)

(* ------------------ the schedulers of the pyzill scripts --------------- *)
\* 'contactFetchAttempts': {'lt': 3} of update_missing_phone_numbers
UmpnCeiling == 3

Variants == {"legacy", "pyzill"}

\* the where clause of find_many in update_missing_phone_numbers
UmpnEligible(l, lk) == ~HasContacts(lk, l.id) /\ l.attempts < UmpnCeiling

\* the loop over detail_data['contacts']: a candidate whose agentId is
\* stored is connected at once, the others are queued for creation
RECURSIVE UmpnCollect(_, _, _, _, _)
UmpnCollect(cands, leadId, cs, lk, skipNoPhone) ==
  IF cands = <<>> THEN [links |-> lk, queue |-> <<>>]
  ELSE LET ci == Head(cands)
           rest(l) == UmpnCollect(Tail(cands), leadId, cs, l, skipNoPhone)
       IN IF skipNoPhone /\ ~Truthy(ci.phoneNumber) THEN rest(lk)
          ELSE IF Truthy(ci.agentId) /\ FindContactByAgentId(cs, ci.agentId) # {}
          THEN rest(Connect(lk, leadId, FirstOf(FindContactByAgentId(cs, ci.agentId)).id))
          ELSE [rest(lk) EXCEPT !.queue = <<ci>> \o @]

\* for contact in contacts_to_create: prisma.contact.create; a create that
\* raises ends the iteration and keeps what was created before it
RECURSIVE UmpnCreateAll(_, _, _, _)
UmpnCreateAll(queue, leadId, cs, lk) ==
  IF queue = <<>> THEN [raised |-> FALSE, contacts |-> cs, links |-> lk]
  ELSE LET c == CreateContact(cs, Head(queue).agentId, Head(queue).phoneNumber,
                              Head(queue).name)
       IN IF c.raised THEN [raised |-> TRUE, contacts |-> cs, links |-> lk]
          ELSE UmpnCreateAll(Tail(queue), leadId, c.contacts, Connect(lk, leadId, c.id))

\* the generic contacts made of the phone numbers found in raw_html
RECURSIVE GenericContacts(_)
GenericContacts(phones) ==
  IF phones = <<>> THEN <<>>
  ELSE <<[agentId |-> None, phoneNumber |-> Head(phones), name |-> None]>>
         \o GenericContacts(Tail(phones))

\* one iteration of update_missing_phone_numbers from detail_data on
UmpnContacts(cands, rawPhones, leadId, cs, lk, skipNoPhone) ==
  LET col == UmpnCollect(cands, leadId, cs, lk, skipNoPhone)
      queue == IF col.queue = <<>> THEN GenericContacts(rawPhones) ELSE col.queue
      cre == UmpnCreateAll(queue, leadId, cs, col.links)
  IN [cre EXCEPT !.raised = cre.raised, !.contacts = cre.contacts]
       @@ [updated |-> ~cre.raised /\ queue # <<>>]

\* the counter of a lead as the store has it
AttemptsOf(ls, leadId) == (CHOOSE l \in ls : l.id = leadId).attempts

\* update_missing_phone_numbers up to its loop: the selection
UmpnStart(variant) ==
  /\ run.pc = "idle"
  /\ LET batch == ById({l \in leads : UmpnEligible(l, links)}) IN
       run' = IF batch = <<>> THEN [IdleRun EXCEPT !.script = variant, !.result = "no leads"]
              ELSE [IdleRun EXCEPT !.script = variant, !.pc = "loop", !.batch = batch,
                                   !.idx = 1]
  /\ counts' = ZeroCounts
  /\ UNCHANGED <<leads, contacts, links, now, start_time, max_runtime, should_stop, log,
                 writers, resolved, obs, env>>

\* one turn of the loop over the selected leads, or the summary after it.
\* The legacy script fetches the detail page and then writes the counter;
\* the script of the upper directory writes the counter and then fetches
UmpnLead(outcome, cands, rawPhones) ==
  /\ run.script \in Variants /\ run.pc = "loop"
  /\ IF run.idx > Len(run.batch)
     THEN /\ run' = [IdleRun EXCEPT !.script = run.script, !.result = "summary"]
          /\ UNCHANGED <<leads, contacts, links, counts, obs>>
     ELSE LET lead == run.batch[run.idx]
              before == AttemptsOf(leads, lead.id)
              counted == ~(run.script = "legacy" /\ outcome = "exception")
              bumped == IF counted THEN BumpAttempts(leads, lead) ELSE leads
              r == UmpnContacts(cands, rawPhones, lead.id, contacts, links,
                                run.script = "pyzill")
              attempt(ls) == [fn |-> "update_missing_phone_numbers", zid |-> lead.zid,
                              fetch |-> TRUE, outcome |-> outcome, before |-> before,
                              after |-> AttemptsOf(ls, lead.id),
                              eligible |-> /\ ~HasContacts(links, lead.id)
                                           /\ before < UmpnCeiling
                                           /\ Truthy(lead.link)]
          IN
          /\ run' = [run EXCEPT !.idx = @ + 1]
          /\ IF ~Truthy(lead.link)
             THEN /\ counts' = [counts EXCEPT !.errors = @ + 1]
                  /\ UNCHANGED <<leads, contacts, links, obs>>
             ELSE /\ leads' = bumped
                  /\ obs' = [obs EXCEPT !.last = attempt(bumped)]
                  /\ IF outcome = "data"
                     THEN /\ Cardinality(contacts) + Len(cands) + Len(rawPhones) <= MaxContacts
                          /\ contacts' = r.contacts
                          /\ links' = r.links
                          /\ counts' = IF r.updated THEN [counts EXCEPT !.created = @ + 1]
                                       ELSE [counts EXCEPT !.errors = @ + 1]
                     ELSE /\ cands = <<>> /\ rawPhones = <<>>
                          /\ counts' = [counts EXCEPT !.errors = @ + 1]
                          /\ UNCHANGED <<contacts, links>>
  /\ UNCHANGED <<now, start_time, max_runtime, should_stop, log, writers, resolved, env>>

\* search results of fetch_us_listings
UsListings == RunListings \cup {[zpid |-> "z1", addressState |-> "GA", detailUrl |-> Missing]}

\* one turn of the loop of fetch_us_listings over the search results:
\* save_to_db, then extract_contact_from_listing for a created and for an
\* existing lead alike
FetchUsListing(result, ci) ==
  /\ run.pc = "idle"
  /\ Cardinality(contacts) < MaxContacts
  /\ LET s == SaveToDbResult(result, leads)
         called == Truthy(Get(result.detailUrl, None)) /\ s.status \in {"created", "exists"}
         r == ExtractContactResult(ci, s.id, contacts, links)
         row == CHOOSE l \in s.leads : l.id = s.id
     IN
     IF ~Truthy(Get(result.detailUrl, None))
     THEN ci = [agentId |-> None, phoneNumber |-> None, name |-> None]
          /\ UNCHANGED <<leads, contacts, links, obs>>
     ELSE /\ leads' = s.leads
          /\ IF called
             THEN /\ contacts' = r.contacts
                  /\ links' = r.links
                  /\ obs' = [obs EXCEPT !.last =
                              [fn |-> "extract_contact_from_listing", zid |-> row.zid,
                               fetch |-> FALSE,
                               outcome |-> IF r.returned THEN "contact" ELSE "none",
                               before |-> IF s.status = "exists"
                                           THEN AttemptsOf(leads, s.id) ELSE 0,
                               after |-> row.attempts,
                               eligible |-> /\ ~HasContacts(links, s.id)
                                            /\ row.attempts < UmpnCeiling
                                            /\ Truthy(row.link)]]
             ELSE /\ ci = [agentId |-> None, phoneNumber |-> None, name |-> None]
                  /\ UNCHANGED <<contacts, links, obs>>
  /\ UNCHANGED <<now, start_time, max_runtime, should_stop, log, writers, resolved, run,
                 counts, env>>

(* ------------------- specification: the pyzill scripts ----------------- *)
\* payloads of a detail page: its structured contacts and the phones of its text
ListedContacts == {c \in Candidates : c.phoneNumber # "p2"}
DetailContacts == {<<>>} \cup {<<c>> : c \in ListedContacts}
RawPhoneLists == {<<>>, <<"p2">>}

InitLegacy ==
  /\ StoreEmpty
  /\ now = 0 /\ start_time = 0 /\ max_runtime = MaxBudget /\ should_stop = FALSE
  /\ log = <<>> /\ WritersIdle /\ resolved = {} /\ RunIdle

NextLegacy ==
  \/ \E variant \in Variants : UmpnStart(variant)
  \/ \E outcome \in {"data", "empty", "exception"}, cands \in DetailContacts,
        rawPhones \in RawPhoneLists : UmpnLead(outcome, cands, rawPhones)
  \/ \E result \in UsListings, ci \in ListedContacts : FetchUsListing(result, ci)

SpecLegacy == InitLegacy /\ [][NextLegacy]_vars

\* C5: every resolution attempt that fetches a detail page leaves
\* contactFetchAttempts exactly one above what it was, whatever the outcome
\* of the attempt (data, empty answer, exception)
C5_OnePerAttempt ==
  (obs.last.fn # "none" /\ obs.last.fetch) => obs.last.after = obs.last.before + 1

\* C6: contact resolution is started on a listing only if it has no linked
\* Contact, its counter is below the ceiling and it has a detail URL
C6_OnlyEligibleResolved == obs.last.fn # "none" => obs.last.eligible

\* C15: when the structured contacts of a detail page have an entry with a
\* phone, the Contacts the iteration creates are made of structured entries
\* only: none carries a phone that comes from the raw page text, also when
\* every structured entry matched a stored Contact
C15_StructuredBeforeRawPhones ==
  \A l \in leads, cands \in DetailContacts, rawPhones \in RawPhoneLists,
     skipNoPhone \in BOOLEAN :
    (/\ UmpnEligible(l, links)
     /\ \E i \in 1..Len(cands) : Truthy(cands[i].phoneNumber)) =>
      LET r == UmpnContacts(cands, rawPhones, l.id, contacts, links, skipNoPhone) IN
        \A c \in r.contacts \ contacts :
          \E i \in 1..Len(cands) : c.phone = cands[i].phoneNumber

\* C22: sighting again a listing whose identifier is stored leaves the Lead
\* rows as they are, and creates or links a Contact only if the listing is
\* eligible for contact resolution at that moment
C22_ResightingLeavesStore ==
  [][\A result \in UsListings, ci \in ListedContacts :
       (/\ SaveToDbResult(result, leads).status = "exists"
        /\ FetchUsListing(result, ci)) =>
          /\ leads' = leads
          /\ (contacts' # contacts \/ links' # links) =>
               \E l \in leads : /\ l.id = SaveToDbResult(result, leads).id
                                /\ UmpnEligible(l, links)]_vars

\* C23: the counter write of a resolution attempt comes before its
\* detail-page fetch, so an attempt whose fetch raised is counted all the same
C23_CountedBeforeFetch ==
  (obs.last.fn = "update_missing_phone_numbers" /\ obs.last.outcome = "exception") =>
    obs.last.after = obs.last.before + 1

(* ---------------------------- network fetches -------------------------- *)
\* MAX_RETRIES of pyzill_fetch_listings.py
PyzillMaxRetries == 3

\* the functions that fetch with retries
FetchFns == {"scrape_property_contacts", "fetch_listing_details_with_retry", "fetch_listings"}

\* delay = min(10 * (2 ** attempt), 60) of scrape_property_contacts
ApiBackoff(attempt) == Min(10 * 2^attempt, 60)

\* delay = min(30 * (2 ** attempt), 120) of fetch_listing_details_with_retry
PyzillBackoff(attempt) == Min(30 * 2^attempt, 120)

\* what one request to the rendering gateway comes back with
ApiAnswers == {"200 info", "200 empty", "403", "404", "500", "exception"}

\* what one call of pyzill.get_from_home_url does: data, nothing, or an
\* exception whose text holds the status
PyzillAnswers == {"data", "empty", "403", "404", "timeout"}

\* time.sleep(random.uniform(a, b)) of the except branch, by its end points
ExceptionSleep(answer) ==
  CASE answer = "403" -> {20, 40}
    [] answer = "timeout" -> {15, 30}
    [] answer = "404" -> {10, 20}
    [] OTHER -> {0}

\* one request as the log keeps it: the delay slept before it in the same
\* turn of the loop and the delay slept after its answer
Attempt(session, answer, before, after) ==
  [fn |-> run.script, attempt |-> run.attempt, session |-> session, answer |-> answer,
   before |-> before, after |-> after]

\* the function returns
Returns(result) == [IdleRun EXCEPT !.script = run.script, !.result = result]

\* a fetch function is called; pos is how far the pages before this one have
\* advanced session_cycle of fetch_listings
FetchCall(fn, pos) ==
  /\ run.pc = "idle"
  /\ fn = "fetch_listings" \/ pos = 0
  /\ run' = [IdleRun EXCEPT !.script = fn, !.pc = "try", !.idx = pos]
  /\ log' = <<>>
  /\ UNCHANGED <<leads, contacts, links, now, start_time, max_runtime, should_stop,
                 writers, resolved, counts, obs, env>>

\* one turn of the loop of scrape_property_contacts: the request and the
\* wait before the retry
ApiAttempt(answer) ==
  /\ run.script = "scrape_property_contacts" /\ run.pc = "try"
  /\ LET last == run.attempt >= ApiMaxRetries - 1
         over == answer \in {"200 info", "404"}
     IN
     /\ log' = Append(log, Attempt(0, answer, 0,
                                   IF over \/ last THEN 0 ELSE ApiBackoff(run.attempt)))
     /\ run' = IF answer = "200 info" THEN Returns("agent_info")
               ELSE IF over \/ last THEN Returns("None")
               ELSE [run EXCEPT !.attempt = @ + 1]
  /\ UNCHANGED <<leads, contacts, links, now, start_time, max_runtime, should_stop,
                 writers, resolved, counts, obs, env>>

\* one turn of the loop of fetch_listing_details_with_retry: get_random_proxy,
\* the wait of a retry, the request and the sleep of the except branch
PyzillAttempt(session, answer, sleep) ==
  /\ run.script = "fetch_listing_details_with_retry" /\ run.pc = "try"
  /\ session \in 1..ProxySessions
  /\ sleep \in ExceptionSleep(answer)
  /\ log' = Append(log, Attempt(session, answer,
                                IF run.attempt > 0 THEN PyzillBackoff(run.attempt) ELSE 0,
                                sleep))
  /\ run' = IF answer = "data" THEN Returns("detail_data")
            ELSE IF run.attempt >= PyzillMaxRetries - 1 THEN Returns("None")
            ELSE [run EXCEPT !.attempt = @ + 1]
  /\ UNCHANGED <<leads, contacts, links, now, start_time, max_runtime, should_stop,
                 writers, resolved, counts, obs, env>>

\* one turn of the for loop of fetch_listings over one page:
\* next(session_cycle), then pyzill.for_sale
FetchListingsAttempt(answer) ==
  /\ run.script = "fetch_listings" /\ run.pc = "try"
  /\ log' = Append(log, Attempt((run.idx % ProxySessions) + 1, answer, 0, 0))
  /\ run' = IF answer = "response" THEN Returns("response")
            ELSE IF run.attempt >= MaxAttempts - 1 THEN Returns("failed")
            ELSE [run EXCEPT !.attempt = @ + 1, !.idx = @ + 1]
  /\ UNCHANGED <<leads, contacts, links, now, start_time, max_runtime, should_stop,
                 writers, resolved, counts, obs, env>>

(* -------------------- specification: network fetches ------------------- *)
InitFetch ==
  /\ StoreEmpty
  /\ now = 0 /\ start_time = 0 /\ max_runtime = MaxBudget /\ should_stop = FALSE
  /\ log = <<>> /\ WritersIdle /\ resolved = {} /\ RunIdle

NextFetch ==
  \/ \E fn \in FetchFns, pos \in 0..(ProxySessions - 1) : FetchCall(fn, pos)
  \/ \E answer \in ApiAnswers : ApiAttempt(answer)
  \/ \E session \in 1..ProxySessions, answer \in PyzillAnswers, sleep \in {0, 10, 15, 20, 30, 40} :
       PyzillAttempt(session, answer, sleep)
  \/ \E answer \in {"response", "exception"} : FetchListingsAttempt(answer)

SpecFetch == InitFetch /\ [][NextFetch]_vars

\* the retry ceiling of the function that is running
RetryCeiling ==
  CASE run.script = "scrape_property_contacts" -> ApiMaxRetries
    [] run.script = "fetch_listing_details_with_retry" -> PyzillMaxRetries
    [] OTHER -> MaxAttempts

\* C24: a detail-page fetch answered with 404 is the last request of its
\* resolution attempt, no delay follows it and the attempt ends with no
\* candidate; an attempt that ends with no candidate without a 404 has made
\* as many requests as the retry ceiling allows
C24_NotFoundEndsAttempt ==
  /\ \A i \in 1..Len(log) :
       log[i].answer = "404" =>
         /\ i = Len(log) /\ log[i].after = 0
         /\ run.pc = "idle" /\ run.result = "None"
  /\ (/\ run.pc = "idle" /\ run.result = "None"
      /\ \A i \in 1..Len(log) : log[i].answer # "404") => Len(log) = RetryCeiling

\* C27: of two consecutive requests of one fetch through the proxy, the later
\* one uses another proxy session than the one that failed before it
C27_RetryChangesSession ==
  \A i \in 1..(Len(log) - 1) :
    log[i].fn # "scrape_property_contacts" => log[i + 1].session # log[i].session

\* the cap of the retry delay: 60 s at the rendering gateway, 120 s for the
\* listing-detail fetch
BackoffCap(fn) == IF fn = "scrape_property_contacts" THEN 60 ELSE 120

\* all that is slept between request i - 1 and request i
DelayBefore(i) == log[i].before + (IF i > 1 THEN log[i - 1].after ELSE 0)

\* C28: the delay before a retry never exceeds the cap of its fetch, never
\* gets shorter from one retry to the next, and nothing is slept after the
\* last permitted attempt
C28_BackoffWithinCap ==
  /\ \A i \in 2..Len(log) :
       /\ DelayBefore(i) <= BackoffCap(log[i].fn)
       /\ i > 2 => DelayBefore(i) >= DelayBefore(i - 1)
  /\ (run.pc = "idle" /\ Len(log) = RetryCeiling) => log[Len(log)].after = 0

(* ------------------------------ entry points --------------------------- *)
\* the main functions of pyzill_fetch_listings.py, zillow_complete_scraper.py
\* and run_complete_scraper.py
Mains == {"pyzill", "complete", "pipeline"}

\* the command line flags of each
Flags(entry) ==
  CASE entry = "pyzill" -> {"skip_fetch", "skip_contacts"}
    [] entry = "complete" -> {"contacts_only", "skip_proxy_test"}
    [] OTHER -> {"listings_only", "contacts_only"}

\* what can fail in a run: the API key is not set, the proxy self-test, the
\* connection to the store, the listing phase, the contact phase
Failures == {"key", "proxy", "connect", "listings", "contacts"}

\* the phases the flags ask for. The contact step of zillow_complete_scraper
\* main is commented out
Requested(entry, args) ==
  CASE entry = "pyzill" ->
         (IF "skip_fetch" \notin args THEN {"listings"} ELSE {})
           \cup (IF "skip_contacts" \notin args /\ "skip_fetch" \in args
                 THEN {"contacts"} ELSE {})
    [] entry = "complete" -> IF "contacts_only" \notin args THEN {"listings"} ELSE {}
    [] OTHER ->
         (IF "contacts_only" \notin args THEN {"listings"} ELSE {})
           \cup (IF "listings_only" \notin args THEN {"contacts"} ELSE {})

\* the phases begun so far
Attempted == {log[i] : i \in 1..Len(log)}

\* a process is started with its flags, in a world where some steps fail
MainStart(entry, args, failing) ==
  /\ run.script = "none"
  /\ args \subseteq Flags(entry)
  /\ run' = [IdleRun EXCEPT !.script = entry,
                            !.pc = IF entry = "pipeline" THEN "key"
                                   ELSE IF entry = "pyzill" THEN "proxy_test"
                                   ELSE "connect"]
  /\ env' = [sched |-> "none", failing |-> failing, args |-> args]
  /\ log' = <<>>
  /\ UNCHANGED <<leads, contacts, links, now, start_time, max_runtime, should_stop,
                 writers, resolved, counts, obs>>

\* a phase is entered if the flags ask for it
Phase(name) == IF name \in Requested(run.script, env.args) THEN Append(log, name) ELSE log

\* main of pyzill_fetch_listings.py, one step at a time: test_proxy_connection,
\* prisma.connect, fetch_us_listings, update_missing_phone_numbers
PyzillMain ==
  /\ run.script = "pyzill" /\ run.pc # "idle"
  /\ CASE run.pc = "proxy_test" ->
            /\ run' = IF "proxy" \in env.failing THEN Returns("exit")
                      ELSE [run EXCEPT !.pc = "connect"]
            /\ log' = log
       [] run.pc = "connect" ->
            /\ run' = IF "connect" \in env.failing THEN Returns("raised")
                      ELSE [run EXCEPT !.pc = "listings"]
            /\ log' = log
       [] run.pc = "listings" ->
            /\ run' = IF "listings" \in Requested("pyzill", env.args)
                         /\ "listings" \in env.failing
                      THEN Returns("failed") ELSE [run EXCEPT !.pc = "contacts"]
            /\ log' = Phase("listings")
       [] OTHER ->
            /\ run' = Returns("done")
            /\ log' = Phase("contacts")
  /\ UNCHANGED <<leads, contacts, links, now, start_time, max_runtime, should_stop,
                 writers, resolved, counts, obs, env>>

\* main of zillow_complete_scraper.py: get_prisma_client, then
\* fetch_zillow_listings, whose proxy self-test only logs its failure
CompleteMain ==
  /\ run.script = "complete" /\ run.pc # "idle"
  /\ CASE run.pc = "connect" ->
            /\ run' = IF "connect" \in env.failing THEN Returns("failed")
                      ELSE [run EXCEPT !.pc = "listings"]
            /\ log' = log
       [] OTHER ->
            /\ run' = IF "listings" \in Requested("complete", env.args)
                         /\ "listings" \in env.failing
                      THEN Returns("failed") ELSE Returns("summary")
            /\ log' = Phase("listings")
  /\ UNCHANGED <<leads, contacts, links, now, start_time, max_runtime, should_stop,
                 writers, resolved, counts, obs, env>>

\* main of run_complete_scraper.py: the API key check, then the two scripts
PipelineMain ==
  /\ run.script = "pipeline" /\ run.pc # "idle"
  /\ CASE run.pc = "key" ->
            /\ run' = IF "key" \in env.failing /\ "listings_only" \notin env.args
                      THEN Returns("failed") ELSE [run EXCEPT !.pc = "listings"]
            /\ log' = log
       [] run.pc = "listings" ->
            /\ run' = [run EXCEPT !.pc = "contacts"]
            /\ log' = Phase("listings")
       [] OTHER ->
            /\ run' = IF Requested("pipeline", env.args) \cap env.failing = {}
                      THEN Returns("done") ELSE Returns("failed")
            /\ log' = Phase("contacts")
  /\ UNCHANGED <<leads, contacts, links, now, start_time, max_runtime, should_stop,
                 writers, resolved, counts, obs, env>>

(* ---------------------- specification: entry points --------------------- *)
InitMain ==
  /\ StoreEmpty
  /\ now = 0 /\ start_time = 0 /\ max_runtime = MaxBudget /\ should_stop = FALSE
  /\ log = <<>> /\ WritersIdle /\ resolved = {} /\ RunIdle

NextMain ==
  \/ \E entry \in Mains, args \in SUBSET {"skip_fetch", "skip_contacts", "contacts_only",
                                          "skip_proxy_test", "listings_only"},
        failing \in SUBSET Failures : MainStart(entry, args, failing)
  \/ PyzillMain
  \/ CompleteMain
  \/ PipelineMain

SpecMain == InitMain /\ [][NextMain]_vars

\* C25: a run in which the connection to the store does not fail has, when
\* it is over, begun every phase its flags asked for, whatever else failed
\* (the proxy self-test, the listing phase)
C25_OnlyConnectFailureEndsRun ==
  (/\ run.script \in Mains /\ run.pc = "idle"
   /\ "connect" \notin env.failing) =>
     Requested(run.script, env.args) \subseteq Attempted

(* ----------------------------- response keys -------------------------- *)
\* for key in ['listResults', 'mapResults', 'cat1', 'results']
KnownKeys == <<"listResults", "mapResults", "cat1", "results">>

\* a response of the listing source: the known keys it has and the list of
\* records under each of them (a record is named after its key and position)
Records(key, n) == [i \in 1..n |-> <<key, i>>]

Responses ==
  UNION { { [keys |-> ks, at |-> [k \in ks |-> Records(k, n[k])]] : n \in [ks -> 0..2] } :
            ks \in SUBSET {KnownKeys[i] : i \in 1..Len(KnownKeys)} }

\* fetch_us_listings: the value of the first known key that is in the
\* response, [] if none is
UsResults(response) ==
  LET present == {i \in 1..Len(KnownKeys) : KnownKeys[i] \in response.keys} IN
    IF present = {} THEN <<>>
    ELSE response.at[KnownKeys[CHOOSE i \in present : \A j \in present : i <= j]]

\* fetch_listings of zillow_complete_scraper.py: response.get('listResults', [])
ListResults(response) ==
  IF "listResults" \in response.keys THEN response.at["listResults"] ELSE <<>>

(* --------------------- specification: response keys -------------------- *)
InitKeys ==
  /\ StoreEmpty /\ ClockInit /\ log = <<>> /\ WritersIdle /\ resolved = {}
  /\ run = IdleRun /\ counts = ZeroCounts /\ obs = NoObs
  /\ env \in [sched : {"none"}, failing : {{}}, page : Responses]

FetchUsListingsResults ==
  /\ run.script = "none"
  /\ run' = [IdleRun EXCEPT !.script = "fetch_us_listings", !.result = UsResults(env.page)]
  /\ UNCHANGED <<storeVars, clockVars, log, writers, resolved, counts, obs, env>>

FetchListingsResults ==
  /\ run.script = "none"
  /\ run' = [IdleRun EXCEPT !.script = "fetch_listings", !.result = ListResults(env.page)]
  /\ UNCHANGED <<storeVars, clockVars, log, writers, resolved, counts, obs, env>>

NextKeys == FetchUsListingsResults \/ FetchListingsResults

SpecKeys == InitKeys /\ [][NextKeys]_vars

\* the records under the first known key whose list is not empty
FirstNonEmpty(response) ==
  LET filled == {i \in 1..Len(KnownKeys) :
                   /\ KnownKeys[i] \in response.keys
                   /\ response.at[KnownKeys[i]] # <<>>}
  IN IF filled = {} THEN <<>>
     ELSE response.at[KnownKeys[CHOOSE i \in filled : \A j \in filled : i <= j]]

\* C29: the listing records processed are those under the first known key
\* whose list is not empty; an empty list under an earlier key hides nothing
C29_FirstNonEmptyKey == run.script # "none" => run.result = FirstNonEmpty(env.page)

(* ---------------------------- page sections --------------------------- *)
\* what the contact sections of a page give, in page order: for each section
\* the contact_info its parse filled (name stands for name or company)
SectionLists ==
  {<<>>} \cup {<<c>> : c \in Candidates} \cup (Candidates \X Candidates)

\* (phoneNumber or agentId) and (name or company)
Meaningful(ci) == (Truthy(ci.phoneNumber) \/ Truthy(ci.agentId)) /\ Truthy(ci.name)

\* not any(c['agentId'] == contact_info['agentId'] or
\*         c['phoneNumber'] == contact_info['phoneNumber'] for c in contacts)
IsUnique(ci, found) ==
  ~\E i \in 1..Len(found) :
      found[i].agentId = ci.agentId \/ found[i].phoneNumber = ci.phoneNumber

\* the loop of extract_contact_info over the contact sections
RECURSIVE ExtractContactInfoFrom(_, _)
ExtractContactInfoFrom(sections, found) ==
  IF sections = <<>> THEN found
  ELSE ExtractContactInfoFrom(Tail(sections),
         IF Meaningful(Head(sections)) /\ IsUnique(Head(sections), found)
         THEN Append(found, Head(sections)) ELSE found)

extract_contact_info(sections) == ExtractContactInfoFrom(sections, <<>>)

(* --------------------- specification: page sections -------------------- *)
InitSections ==
  /\ StoreEmpty /\ ClockInit /\ log = <<>> /\ WritersIdle /\ resolved = {}
  /\ run = IdleRun /\ counts = ZeroCounts /\ obs = NoObs
  /\ env \in [sched : {"none"}, failing : {{}}, page : SectionLists]

ExtractContactInfo ==
  /\ run.script = "none"
  /\ run' = [IdleRun EXCEPT !.script = "extract_contact_info",
                            !.result = extract_contact_info(env.page)]
  /\ UNCHANGED <<storeVars, clockVars, log, writers, resolved, counts, obs, env>>

NextSections == ExtractContactInfo

SpecSections == InitSections /\ [][NextSections]_vars

\* C30: the candidates of one extraction call are deduplicated by phone only:
\* no two of them share a phone, and every phone found in a section that has
\* a name or company is the phone of a candidate
C30_DedupByPhoneOnly ==
  run.script # "none" =>
    /\ \A i, j \in 1..Len(run.result) :
         (i # j /\ Truthy(run.result[i].phoneNumber)) =>
           run.result[i].phoneNumber # run.result[j].phoneNumber
    /\ \A k \in 1..Len(env.page) :
         (Truthy(env.page[k].phoneNumber) /\ Truthy(env.page[k].name)) =>
           \E i \in 1..Len(run.result) : run.result[i].phoneNumber = env.page[k].phoneNumber

(* --------------------------- phone numbers ----------------------------- *)
\* text is a sequence of characters
Digits == {"0", "1", "2", "3", "4", "5", "6", "7", "8", "9"}
Letters == {"x"}
Separators == {"-", ".", " "}
Whitespace == {" "}

\* \w of the re module, and \b before the character at position i
IsWord(s, i) == i \in 1..Len(s) /\ s[i] \in Digits \cup Letters
Boundary(s, i) == IsWord(s, i - 1) # IsWord(s, i)

\* re.match of the elements k.. of a pattern at position i of s: the position
\* after the match, or 0 when there is none. Elements: <<"b">> is \b,
\* <<"d", n>> is \d{n}, <<"opt", S>> is [S]?, <<"star", S>> is [S]*,
\* <<"lit", c>> is the character c
RECURSIVE MatchFrom(_, _, _, _)
MatchFrom(pat, k, s, i) ==
  IF k > Len(pat) THEN i
  ELSE LET el == pat[k]
           next(j) == MatchFrom(pat, k + 1, s, j)
       IN CASE el[1] = "b" -> IF Boundary(s, i) THEN next(i) ELSE 0
            [] el[1] = "d" -> IF i + el[2] - 1 <= Len(s)
                                 /\ \A j \in i..(i + el[2] - 1) : s[j] \in Digits
                              THEN next(i + el[2]) ELSE 0
            [] el[1] = "opt" -> IF i <= Len(s) /\ s[i] \in el[2] /\ next(i + 1) # 0
                                THEN next(i + 1) ELSE next(i)
            [] el[1] = "star" -> IF i <= Len(s) /\ s[i] \in el[2]
                                    /\ MatchFrom(pat, k, s, i + 1) # 0
                                 THEN MatchFrom(pat, k, s, i + 1) ELSE next(i)
            [] el[1] = "lit" -> IF i <= Len(s) /\ s[i] = el[2] THEN next(i + 1) ELSE 0

\* re.findall(pattern, text): the matches found scanning from position i on,
\* each search resuming where the match before it ended
RECURSIVE FindAll(_, _, _)
FindAll(pat, s, i) ==
  IF i > Len(s) THEN {}
  ELSE LET e == MatchFrom(pat, 1, s, i) IN
       IF e = 0 THEN FindAll(pat, s, i + 1)
       ELSE {SubSeq(s, i, e - 1)} \cup FindAll(pat, s, e)

D3 == <<"d", 3>>
D4 == <<"d", 4>>
B == <<"b">>
Sep == <<"opt", Separators>>
Ws == <<"star", Whitespace>>
Lit(c) == <<"lit", c>>

\* phone_patterns of extract_phone_numbers (zillow_complete_scraper.py)
CompletePhonePatterns ==
  << <<B, D3, Sep, D3, Sep, D4, B>>,
     <<Lit("("), D3, Lit(")"), Ws, D3, Sep, D4>>,
     <<B, <<"d", 10>>, B>>,
     <<Lit("+"), Lit("1"), Ws, D3, Sep, D3, Sep, D4>> >>

\* phone_patterns of update_missing_phone_numbers (pyzill_fetch_listings.py)
PyzillPhonePatterns ==
  << <<B, D3, Lit("-"), D3, Lit("-"), D4, B>>,
     <<B, D3, Lit("."), D3, Lit("."), D4, B>>,
     <<B, Lit("("), D3, Lit(")"), Ws, D3, Lit("-"), D4, B>>,
     <<B, Lit("("), D3, Lit(")"), Ws, D3, Ws, D4, B>>,
     <<B, D3, Ws, D3, Ws, D4, B>> >>

\* re.sub(r'[^\d]', '', match)
StripNonDigits(match) == SelectSeq(match, LAMBDA c : c \in Digits)

\* f"({phone[:3]}) {phone[3:6]}-{phone[6:10]}"
FormatPhone(phone) ==
  <<"(">> \o SubSeq(phone, 1, 3) \o <<")", " ">> \o SubSeq(phone, 4, 6)
          \o <<"-">> \o SubSeq(phone, 7, Min(10, Len(phone)))

AllMatches(patterns, text) ==
  UNION {FindAll(patterns[p], text, 1) : p \in 1..Len(patterns)}

\* phone_patterns of extract_phone_numbers (scraper_api_contacts.py)
ApiPhonePatterns ==
  CompletePhonePatterns \o << <<B, Lit("1"), Sep, D3, Sep, D3, Sep, D4, B>> >>

\* extract_phone_numbers of zillow_complete_scraper.py and, with its own
\* patterns, of scraper_api_contacts.py
ExtractPhones(patterns, text_content) ==
  LET stripped == {StripNonDigits(m) : m \in AllMatches(patterns, text_content)}
  IN {FormatPhone(phone) : phone \in {q \in stripped : Len(q) = 10}}
       \cup {FormatPhone(Tail(phone)) :
               phone \in {q \in stripped : Len(q) = 11 /\ Head(q) = "1"}}

extract_phone_numbers(text_content) == ExtractPhones(CompletePhonePatterns, text_content)

\* the phone_numbers set that update_missing_phone_numbers builds of raw_html
RawHtmlPhones(html_content) ==
  LET stripped == {StripNonDigits(m) : m \in AllMatches(PyzillPhonePatterns, html_content)}
  IN {FormatPhone(phone) : phone \in {q \in stripped : Len(q) >= 10}}

(* ----------------- specification: phone number extraction -------------- *)
\* the pages are one phone-shaped text each
PhonePrefixes == {<<>>, <<"1">>, <<"+", "1">>, <<"1", "-">>}
AreaCodes == {<<"5", "5", "5">>, <<"(", "5", "5", "5", ")">>}
GroupSeparators == {<<>>, <<"-">>, <<".">>, <<" ">>}
LineNumbers == {<<"4", "5", "6", "7">>, <<"4", "5", "6">>, <<"4", "5", "6", "7", "8">>}
PhoneTexts ==
  {p \o a \o s1 \o <<"1", "2", "3">> \o s2 \o n :
     p \in PhonePrefixes, a \in AreaCodes, s1 \in GroupSeparators,
     s2 \in GroupSeparators, n \in LineNumbers}

InitPhones ==
  /\ StoreEmpty /\ ClockInit /\ log = <<>> /\ WritersIdle /\ resolved = {}
  /\ run = IdleRun /\ counts = ZeroCounts /\ obs = NoObs
  /\ env \in [sched : {"none"}, failing : {{}}, page : PhoneTexts]

ExtractPhoneNumbers ==
  /\ run.script = "none"
  /\ run' = [IdleRun EXCEPT !.script = "extract_phone_numbers",
                            !.result = extract_phone_numbers(env.page)]
  /\ UNCHANGED <<storeVars, clockVars, log, writers, resolved, counts, obs, env>>

SweepRawHtml ==
  /\ run.script = "none"
  /\ run' = [IdleRun EXCEPT !.script = "update_missing_phone_numbers",
                            !.result = RawHtmlPhones(env.page)]
  /\ UNCHANGED <<storeVars, clockVars, log, writers, resolved, counts, obs, env>>

NextPhones == ExtractPhoneNumbers \/ SweepRawHtml

SpecPhones == InitPhones /\ [][NextPhones]_vars

\* the canonical form of the digits of a text, as a set of candidates
Normalized(text) ==
  LET d == StripNonDigits(text) IN
    IF Len(d) = 10 THEN {FormatPhone(d)}
    ELSE IF Len(d) = 11 /\ Head(d) = "1" THEN {FormatPhone(Tail(d))}
    ELSE {}

\* C17: phone normalization strips the non-digits; ten digits give
\* (AAA) BBB-CCCC, eleven digits that start with 1 drop the 1 and give the
\* same, any other count gives no candidate (so 555.123.4567, (555) 123-4567,
\* 5551234567 and 15551234567 all give (555) 123-4567)
C17_PhoneNormalization ==
  run.script \in {"extract_phone_numbers", "update_missing_phone_numbers"} =>
    run.result = Normalized(env.page)

(* ------------------------------ agent names ---------------------------- *)
\* a name is a sequence of tokens separated by one blank; a token is a word
\* and the way it is capitalised
Words == {"jane", "smith", "gourmet", "kitchen", "corner", "lot", "realty", "pa", "2nd"}
WordLength == [w \in Words |->
                 CASE w \in {"pa"} -> 2 [] w \in {"lot", "2nd"} -> 3 [] w = "jane" -> 4
                   [] w = "smith" -> 5 [] w \in {"corner", "realty"} -> 6 [] OTHER -> 7]
Caps == {"Title", "lower", "UPPER"}
Tokens == [word : Words, cap : Caps]

\* len(name)
RECURSIVE NameLength(_)
NameLength(name) ==
  IF name = <<>> THEN 0
  ELSE WordLength[Head(name).word] + (IF Len(name) > 1 THEN 1 ELSE 0) + NameLength(Tail(name))

\* real_estate_terms of is_valid_company_name that a word of Words contains
CompanyWords == {"realty"}

\* is_valid_company_name
is_valid_company_name(company) ==
  /\ company # <<>> /\ NameLength(company) >= 5 /\ NameLength(company) <= 80
  /\ \E i \in 1..Len(company) : company[i].word \in CompanyWords

\* property_terms of is_valid_agent_name
PropertyTerms == {"electric", "water", "kitchen", "bedroom", "bathroom", "garage",
                  "listing", "property", "home", "house", "price", "sold", "new"}

\* part.replace('.', '').replace('-', '').isalpha()
IsAlpha(token) == token.word # "2nd"

\* [A-Z][a-z]+
Capitalised(token) == IsAlpha(token) /\ token.cap = "Title"

\* (?:PA|Jr|Sr|III|IV)
NameSuffix(token) == token.word = "pa" /\ token.cap = "UPPER"

\* name_patterns: two or three capitalised words and an optional suffix; the
\* second pattern (De, Van, Von between two capitalised words) matches
\* nothing that the first does not match
MatchesNamePattern(name) ==
  LET body == IF Len(name) >= 3 /\ NameSuffix(name[Len(name)])
              THEN SubSeq(name, 1, Len(name) - 1) ELSE name
  IN \/ Len(body) \in {2, 3} /\ \A i \in 1..Len(body) : Capitalised(body[i])
     \/ Len(name) \in {2, 3} /\ \A i \in 1..Len(name) : Capitalised(name[i])

\* is_valid_agent_name without its check against the company terms
is_valid_agent_name_NoCompanyCheck(name) ==
  IF name = <<>> \/ NameLength(name) < 4 \/ NameLength(name) > 50 THEN FALSE
  ELSE IF MatchesNamePattern(name) THEN TRUE
  ELSE IF Len(name) < 2 \/ Len(name) > 4 THEN FALSE
  ELSE \A i \in 1..Len(name) : name[i].word \notin PropertyTerms /\ IsAlpha(name[i])

\* is_valid_agent_name
is_valid_agent_name(name) ==
  IF name = <<>> \/ NameLength(name) < 4 \/ NameLength(name) > 50 THEN FALSE
  ELSE IF is_valid_company_name(name) THEN FALSE
  ELSE IF MatchesNamePattern(name) THEN TRUE
  ELSE IF Len(name) < 2 \/ Len(name) > 4 THEN FALSE
  ELSE \A i \in 1..Len(name) : name[i].word \notin PropertyTerms /\ IsAlpha(name[i])

(* -------------------- specification: name plausibility ----------------- *)
NameTexts == {<<t>> : t \in Tokens} \cup (Tokens \X Tokens)

InitNames ==
  /\ StoreEmpty /\ ClockInit /\ log = <<>> /\ WritersIdle /\ resolved = {}
  /\ run = IdleRun /\ counts = ZeroCounts /\ obs = NoObs
  /\ env \in [sched : {"none"}, failing : {{}}, page : NameTexts]

IsValidAgentName ==
  /\ run.script = "none"
  /\ run' = [IdleRun EXCEPT !.script = "is_valid_agent_name",
                            !.result = is_valid_agent_name(env.page)]
  /\ UNCHANGED <<storeVars, clockVars, log, writers, resolved, counts, obs, env>>

IsValidCompanyName ==
  /\ run.script = "none"
  /\ run' = [IdleRun EXCEPT !.script = "is_valid_company_name",
                            !.result = is_valid_company_name(env.page)]
  /\ UNCHANGED <<storeVars, clockVars, log, writers, resolved, counts, obs, env>>

NextNames == IsValidAgentName \/ IsValidCompanyName

SpecNames == InitNames /\ [][NextNames]_vars

TitleCase(words) == [i \in 1..Len(words) |-> [word |-> words[i], cap |-> "Title"]]

\* C18: the name filter rejects every string that has a token of the
\* property-jargon stoplist, however the string is capitalised; it rejects
\* "Gourmet Kitchen" and "Corner Lot" and accepts "Jane Smith"
C18_JargonNamesRejected ==
  run.script = "is_valid_agent_name" =>
    /\ (\E i \in 1..Len(env.page) : env.page[i].word \in PropertyTerms) => ~run.result
    /\ env.page = TitleCase(<<"gourmet", "kitchen">>) => ~run.result
    /\ env.page = TitleCase(<<"corner", "lot">>) => ~run.result
    /\ env.page = TitleCase(<<"jane", "smith">>) => run.result

\* C31: no string is accepted by both filters: what is_valid_agent_name
\* accepts is_valid_company_name rejects, and the other way round, also for
\* strings of two or three capitalised words
C31_NameAndCompanyExclusive ==
  /\ run.script = "is_valid_agent_name" =>
       ~(run.result /\ is_valid_company_name(env.page))
  /\ run.script = "is_valid_company_name" =>
       ~(run.result /\ is_valid_agent_name(env.page))

\* "Smith Realty" has the shape of a first and last name and holds a company
\* term: the name filter was applied to it and rejected it
C31_Witness ==
  /\ run.script = "is_valid_agent_name"
  /\ env.page = TitleCase(<<"smith", "realty">>)
  /\ MatchesNamePattern(env.page) /\ is_valid_company_name(env.page)
  /\ ~run.result

(* ---------------------- specification: end to end --------------------- *)
\* a detail page names the agent n1 with one phone. The name and the phone
\* are in the text of the page, in an element whose class has "agent", or in
\* the listedBy block of a script
Markups == {"text", "agent_div", "listedBy"}
PagePhones == {<<"(", "5", "5", "5", ")", " ", "1", "2", "3", "-", "4", "5", "6", "7">>,
               <<"5", "5", "5", ".", "1", "2", "3", ".", "4", "5", "6", "7">>}
Pages == [markup : Markups, phone : PagePhones]

\* list(set(...)) of at most one element
ListOf(S) == IF S = {} THEN <<>> ELSE <<CHOOSE x \in S : TRUE>>

\* extract_agent_info of zillow_complete_scraper.py: the NAME and PHONE texts
\* of the listedBy block, stripped of blanks around them
CompleteExtractAgentInfo(page) ==
  IF page.markup = "listedBy"
  THEN <<[agentId |-> None, name |-> "n1", phoneNumber |-> page.phone]>>
  ELSE <<>>

\* extract_agent_info of scraper_api_contacts.py: the phones of the whole
\* document, the names of the elements that the agent selectors find
ApiExtractAgentInfo(page) ==
  [names |-> IF page.markup = "agent_div" THEN <<"n1">> ELSE <<>>,
   phones |-> ListOf(ExtractPhones(ApiPhonePatterns, page.phone))]

InitEndToEnd ==
  /\ StoreEmpty
  /\ now = 0 /\ start_time = 0 /\ max_runtime = MaxBudget /\ should_stop = FALSE
  /\ log = <<>> /\ WritersIdle /\ resolved = {}
  /\ run = IdleRun /\ counts = ZeroCounts /\ obs = NoObs
  /\ env \in [sched : Scheds, failing : {{}}, page : Pages]

NextEndToEnd ==
  \/ \E listing \in {l \in RunListings : HasIdentifier(l)} : SaveListingToDb(listing)
  \/ NotStarted /\ ApiStart(MaxBudget)
  \/ ApiLoop
  \/ \E dt \in Durations :
       LET agent_info == ApiExtractAgentInfo(env.page) IN
         ApiFetch(IF agent_info.phones # <<>> \/ agent_info.names # <<>>
                  THEN "info" ELSE "noinfo", agent_info, dt)
  \/ NotStarted /\ CompleteStart(MaxBudget)
  \/ CompleteLoop
  \/ \E dt \in Durations :
       LET data == CompleteExtractAgentInfo(env.page) IN
         CompleteFetch(IF data # <<>> THEN "info" ELSE "none", data, dt)

SpecEndToEnd == InitEndToEnd /\ [][NextEndToEnd]_vars

\* the one contact phase of the process has handled the one stored listing
OnePhaseOneListing ==
  /\ run.script \in Scheds /\ run.result = "summary"
  /\ counts.processed = 1 /\ Cardinality(leads) = 1

\* C19: an upsert into the empty store leaves a Listing whose counter is 0;
\* one contact phase whose fetch returns a page that names one agent with one
\* phone leaves one Contact with that name and the normalized phone, linked
\* to the Listing, and the counter at 1
C19_EndToEnd ==
  /\ NotStarted => \A l \in leads : l.attempts = 0
  /\ OnePhaseOneListing =>
       /\ \A l \in leads : l.attempts = 1
       /\ Cardinality(contacts) = 1
       /\ \A c \in contacts :
            /\ c.name = "n1"
            /\ {c.phone} = Normalized(env.page.phone)
            /\ \A l \in leads : <<l.id, c.id>> \in links

(* ------------------- specification: sequential upserts ---------------- *)
InitUpsert ==
  StoreEmpty /\ ClockInit /\ log = <<>> /\ WritersIdle /\ resolved = {} /\ RunIdle

NextUpsert ==
  \/ \E listing \in RawListings : SaveToDb(listing)
  \/ \E listing \in RawListings : SaveListingToDb(listing)
  \/ Tick

SpecUpsert == InitUpsert /\ [][NextUpsert]_vars

(* ------------------------------ C1 ------------------------------------ *)
OneRowPerZid == \A a \in leads, b \in leads : a.zid = b.zid => a = b

\* an earlier upsert of the same external identifier created the row
EarlierCreated(i) ==
  {j \in 1..(i-1) : log[j].status = "created"
                    /\ Str(log[j].listing.zpid) = Str(log[i].listing.zpid)}

\* earlier upserts of the same raw listing
EarlierSame(i) == {j \in 1..(i-1) : log[j].listing = log[i].listing}

Effective(e) ==
  /\ HasIdentifier(e.listing)
  /\ ~e.timedOut
  /\ e.fn = "save_listing_to_db" =>
       OrElse(Get(e.listing.addressState, ""), "Unknown") \in TargetStates

C11_RejectedIffNoIdentifier ==
  \A i \in 1..Len(log) :
    ~log[i].timedOut =>
      (log[i].status \notin {"created", "exists"} <=> ~HasIdentifier(log[i].listing))

(* ---------------- specification: two interleaved writers -------------- *)
Writers == {1, 2}
UpsertFns == {"save_to_db", "save_listing_to_db"}

IdleWriter == [pc |-> "idle", fn |-> "", listing |-> None, status |-> "",
               id |-> NoId, raced |-> FALSE]

\* a writer enters an upsert and runs it up to the create call
WLookup(w, fn, listing) ==
  /\ writers[w].pc = "idle"
  /\ LET p == IF fn = "save_to_db" THEN SaveToDbLookup(listing, leads)
              ELSE SaveListingToDbLookup(listing, leads, is_timeout)
     IN writers' = [writers EXCEPT ![w] =
          [pc |-> IF p.status = "create" THEN "looked" ELSE "done",
           fn |-> fn, listing |-> listing, status |-> p.status, id |-> p.id,
           raced |-> FALSE]]
  /\ UNCHANGED <<leads, contacts, links, now, start_time, max_runtime, should_stop, log, resolved, runVars>>

\* the writer's create call reaches the store
WCreate(w) ==
  /\ writers[w].pc = "looked"
  /\ LET r == UpsertCreate(writers[w].listing, leads) IN
       /\ leads' = r.leads
       /\ writers' = [writers EXCEPT ![w].pc = "done", ![w].status = r.status,
                                     ![w].id = r.id,
                                     ![w].raced = LeadUniqueViolation(leads,
                                        Str(Get(writers[w].listing.zpid, "")))]
  /\ UNCHANGED <<contacts, links, now, start_time, max_runtime, should_stop, log, resolved, runVars>>

InitRace ==
  /\ StoreEmpty /\ ClockInit /\ log = <<>>
  /\ writers = [w \in Writers |-> IdleWriter]
  /\ resolved = {}
  /\ RunIdle

NextRace ==
  \/ \E w \in Writers, fn \in UpsertFns, listing \in RawListings : WLookup(w, fn, listing)
  \/ \E w \in Writers : WCreate(w)
  \/ Tick

SpecRace == InitRace /\ [][NextRace]_vars

(* ------------------------------ C10 ----------------------------------- *)
\* C10: an upsert whose create lost the race against another writer's row
\* reports AlreadyExists, and one row exists for the identifier.
C10_RaceIsExists ==
  /\ OneRowPerZid
  /\ \A w \in Writers :
       (writers[w].pc = "done" /\ writers[w].raced) => writers[w].status = "exists"
====
